---------------------------- MODULE Spec2Model ----------------------------
(***************************************************************************)
(* Job360 resume tailoring: the RewriteTailorAgent customization workflow  *)
(* (section identifier, edit planner, edit applier with its forced pass,   *)
(* completeness evaluator) run through BaseAgent.execute.                  *)
(*                                                                         *)
(* Text is a sequence of one-character strings, so that str.lower(),       *)
(* str.strip(), str.split() and the `in` substring test are computed.      *)
(* A target / unit identifier is a sequence of tokens in which "_" is the  *)
(* separator the code splits on.                                           *)
(***************************************************************************)
EXTENDS Integers, Sequences, FiniteSets, TLC

\* ------------------------------------------------------------------ bounds
MaxBullets == 2
MaxExperiences == 2
MaxPlanActions == 2
MaxJobs == 2

\* ------------------------------------------------------- program constants
KeywordScanLimit == 15
RelevantLimit == 5
FallbackLimit == 5
PriorityPool == 20
RequiredWeight == 15
PreferredWeight == 10
ShortBulletLimit == 5
ExpTechCap == 5
ProjTechCap == 3
SkillCap == 10
PartialWordMin == 3
BulletWordMin == 4
RoleWordMin == 4

\* --------------------------------------------------------------- Python values
\* None, per type of the value it stands in for: a string, a text, a record
None == "None"
NoText == <<"None">>
NoneRec == [none |-> TRUE]
Min(a, b) == IF a < b THEN a ELSE b

\* list[:n]
Take(s, n) == SubSeq(s, 1, Min(n, Len(s)))

\* truthiness of an Optional[str] / list: None, "" and [] are falsy
Truthy(v) == v # NoText /\ v # <<>>

\* ------------------------------------------------------------------- text
UpperLetters ==
  <<"A","B","C","D","E","F","G","H","I","J","K","L","M",
    "N","O","P","Q","R","S","T","U","V","W","X","Y","Z">>
LowerLetters ==
  <<"a","b","c","d","e","f","g","h","i","j","k","l","m",
    "n","o","p","q","r","s","t","u","v","w","x","y","z">>

Range(s) == {s[i] : i \in 1..Len(s)}

\* code point order of the characters the model uses
CharOrder == <<" ", "-", ".", "3", "4", "5">> \o UpperLetters \o LowerLetters
CharCodes == [c \in Range(CharOrder) |-> CHOOSE i \in 1..Len(CharOrder) : CharOrder[i] = c]
CharCode(c) == CharCodes[c]

Chars == Range(CharOrder) \cup {"None", "-"}

LowerTable ==
  [c \in Chars |->
     IF \E i \in 1..26 : UpperLetters[i] = c
       THEN LowerLetters[CHOOSE i \in 1..26 : UpperLetters[i] = c]
       ELSE c]
UpperTable ==
  [c \in Chars |->
     IF \E i \in 1..26 : LowerLetters[i] = c
       THEN UpperLetters[CHOOSE i \in 1..26 : LowerLetters[i] = c]
       ELSE c]
LowerChar(c) == LowerTable[c]
UpperChar(c) == UpperTable[c]

\* str.lower()
Lower(t) == [i \in 1..Len(t) |-> LowerChar(t[i])]

RECURSIVE LStrip(_)
LStrip(t) == IF t # <<>> /\ Head(t) = " " THEN LStrip(Tail(t)) ELSE t
RECURSIVE RStrip(_)
RStrip(t) ==
  IF t # <<>> /\ t[Len(t)] = " " THEN RStrip(SubSeq(t, 1, Len(t) - 1)) ELSE t
\* str.strip()
Strip(t) == RStrip(LStrip(t))

\* str.split(): the maximal runs of non-blank characters
RECURSIVE SplitFrom(_, _, _)
SplitFrom(t, cur, acc) ==
  IF t = <<>> THEN (IF cur = <<>> THEN acc ELSE Append(acc, cur))
  ELSE IF Head(t) = " "
    THEN SplitFrom(Tail(t), <<>>, IF cur = <<>> THEN acc ELSE Append(acc, cur))
    ELSE SplitFrom(Tail(t), Append(cur, Head(t)), acc)
Split(t) == SplitFrom(t, <<>>, <<>>)

\* needle in hay
Contains(hay, needle) ==
  \E i \in 0..(Len(hay) - Len(needle)) :
     SubSeq(hay, i + 1, i + Len(needle)) = needle

\* a < b in Python's string order
RECURSIVE TextLess(_, _)
TextLess(a, b) ==
  IF a = <<>> THEN b # <<>>
  ELSE IF b = <<>> THEN FALSE
  ELSE IF Head(a) = Head(b) THEN TextLess(Tail(a), Tail(b))
  ELSE CharCode(Head(a)) < CharCode(Head(b))

\* sorted(list(set))
RECURSIVE SortedTexts(_)
SortedTexts(S) ==
  IF S = {} THEN <<>>
  ELSE LET m == CHOOSE x \in S : \A y \in S \ {x} : TextLess(x, y)
       IN <<m>> \o SortedTexts(S \ {m})


\* int -> str and str -> int on the indexes the model uses
Digits == <<"0","1","2","3","4","5","6","7","8","9">>
IntStr(n) == Digits[n + 1]
IsIntStr(s) == s = "-1" \/ \E n \in 0..9 : Digits[n + 1] = s
ParseInt(s) == IF s = "-1" THEN -1 ELSE (CHOOSE n \in 0..9 : Digits[n + 1] = s)

\* "a_b_c".split("_")
SplitUnderscore(target) ==
  LET keep(tok) == tok # "_" IN SelectSeq(target, keep)

RECURSIVE Flatten(_)
Flatten(ss) == IF ss = <<>> THEN <<>> ELSE Head(ss) \o Flatten(Tail(ss))

\* ----------------------------------------------------------- fixture text
TxDev == <<"d","e","v">>
TxBuiltApis == <<"b","u","i","l","t"," ","a","p","i","s">>
TxLedTeam == <<"L","e","d"," ","t","e","a","m">>
TxShipsCode == <<"s","h","i","p","s"," ","c","o","d","e">>
TxDemo == <<"d","e","m","o">>
TxTalk == <<"t","a","l","k">>
TxNew == <<"n","e","w">>
TxPlan == <<"p","l","a","n">>
TxAdded == <<"a","d","d","e","d">>
KwApi == <<"a","p","i">>
KwJava == <<"J","a","v","a">>
KwSql == <<"s","q","l">>
KwTeamLead == <<"t","e","a","m"," ","l","e","a","d">>
KwRebuilt == <<"r","e","b","u","i","l","t">>
KwGo == <<"g","o">>
RoleDataEngineer == <<"D","a","t","a"," ","E","n","g","i","n","e","e","r">>

\* ---------------------------------------------------- Requirement (jd_models)
NoJD == NoneRec
MalformedJD == [malformed |-> TRUE]
IsWellFormedJD(j) == j # NoJD /\ j # MalformedJD

Req(skill, importance) == [skill |-> skill, importance |-> importance]

MkJD(required, preferred, ats, technical) ==
  [required_skills |-> required, preferred_skills |-> preferred,
   ats_keywords |-> ats, technical_keywords |-> technical]

SkillNames(reqs) == [i \in 1..Len(reqs) |-> reqs[i].skill]

GetAllKeywords(jd) ==
  SortedTexts(Range(jd.ats_keywords) \cup Range(jd.technical_keywords)
              \cup Range(SkillNames(jd.required_skills))
              \cup Range(SkillNames(jd.preferred_skills)))

\* importance * 1.5 is a product of doubles: for importance 0.0, 0.1, .., 1.0
\* where the rounded product lies against the double nearest to the exact
\* product (-1 below, 0 on it, 1 above); 0.6 * 1.5 is 0.8999999999999999
ProductRounding == <<0, 1, 1, -1, 1, 0, -1, -1, 1, 0, 0>>

\* importance is held in tenths; the weights are integers in the order of the
\* doubles the code compares: 4 units per 1/100, the rounding in between
RequiredFloatWeight(importance) ==
  importance * RequiredWeight * 4 + ProductRounding[importance + 1]
PreferredFloatWeight(importance) == importance * PreferredWeight * 4

WeightedSkills(jd) ==
  [i \in 1..Len(jd.required_skills) |->
      [skill |-> jd.required_skills[i].skill,
       weight |-> RequiredFloatWeight(jd.required_skills[i].importance)]]
  \o
  [i \in 1..Len(jd.preferred_skills) |->
      [skill |-> jd.preferred_skills[i].skill,
       weight |-> PreferredFloatWeight(jd.preferred_skills[i].importance)]]

\* list.sort(key=weight, reverse=True): stable, descending
SortByWeightDesc(all) ==
  LET n == Len(all)
      rank(i) == Cardinality({k \in 1..n :
                    \/ all[k].weight > all[i].weight
                    \/ (all[k].weight = all[i].weight /\ k < i)}) + 1
  IN [r \in 1..n |-> all[CHOOSE i \in 1..n : rank(i) = r]]

GetPrioritySkills(jd, top_n) ==
  SkillNames(Take(SortByWeightDesc(WeightedSkills(jd)), top_n))

\* ------------------------------------------------- _find_relevant_keywords
\* faulty variant: the direct match only
IsDirectMatch(text_lower, keyword) == Contains(text_lower, Lower(keyword))

IsRelevantKeyword(text_lower, keyword) ==
  LET keyword_lower == Lower(keyword)
      kwords == Split(keyword_lower)
      twords == Split(text_lower)
  IN \/ Contains(text_lower, keyword_lower)
     \/ \E w \in 1..Len(kwords) :
           Len(kwords[w]) > PartialWordMin /\ Contains(text_lower, kwords[w])
     \/ \E w \in 1..Len(twords) :
           Len(twords[w]) > BulletWordMin /\ Contains(keyword_lower, twords[w])

FindRelevantKeywords(text, keywords) ==
  LET text_lower == Lower(text)
      hit(k) == IsRelevantKeyword(text_lower, k)
  IN Take(SelectSeq(Take(keywords, KeywordScanLimit), hit), RelevantLimit)


\* ------------------------------------------------------ Profile (profile_models)
NoProfile == [absent |-> TRUE]

MkExperience(bullets, technologies) ==
  [bullets |-> bullets, technologies |-> technologies]
MkProject(description, bullets, technologies) ==
  [description |-> description, bullets |-> bullets, technologies |-> technologies]
MkSection(name, items) == [name |-> name, items |-> items]
MkItem(description) == [description |-> description]

MkProfile(summary, experiences, projects, skills, education, certifications, awards, other_sections) ==
  [summary |-> summary, experiences |-> experiences, projects |-> projects,
   skills |-> skills, education |-> education, certifications |-> certifications,
   awards |-> awards, other_sections |-> other_sections]

\* --------------------------------------------- _identify_sections_to_edit
Id1(a) == <<a>>
Id2(a, b) == <<a, "_", b>>
Id3(a, b, c) == <<a, "_", b, "_", c>>
Id4(a, b, c, d) == <<a, "_", b, "_", c, "_", d>>

ExperienceSections(i, exp) ==
  (IF exp.bullets # <<>>
     THEN <<Id3("experience", IntStr(i), "bullets")>>
          \o [j \in 1..Len(exp.bullets) |->
                Id4("experience", IntStr(i), "bullet", IntStr(j - 1))]
     ELSE <<>>)
  \o (IF exp.technologies # <<>>
        THEN <<Id3("experience", IntStr(i), "technologies")>>
        ELSE <<>>)

ProjectSections(i, proj) ==
  IF proj.bullets # <<>> \/ Truthy(proj.description)
    THEN <<Id2("project", IntStr(i))>>
         \o [j \in 1..Len(proj.bullets) |->
               Id4("project", IntStr(i), "bullet", IntStr(j - 1))]
    ELSE <<>>

OtherSectionIds(sections) ==
  LET hasItems(sec) == sec.items # <<>>
      kept == SelectSeq(sections, hasItems)
  IN [n \in 1..Len(kept) |-> <<"other", "_", "section", "_", kept[n].name>>]

\* faulty variant: the per-unit identifiers only, without the aggregate ones
IdentifyUnitsOnly(profile, jd, company_name, job_role) ==
  (IF Truthy(profile.summary) THEN <<Id1("summary")>> ELSE <<>>)
  \o Flatten([i \in 1..Len(profile.experiences) |->
                [j \in 1..Len(profile.experiences[i].bullets) |->
                   Id4("experience", IntStr(i - 1), "bullet", IntStr(j - 1))]
                \o (IF profile.experiences[i].bullets # <<>>
                      THEN <<Id3("experience", IntStr(i - 1), "technologies")>>
                      ELSE <<>>)])
  \o Flatten([i \in 1..Len(profile.projects) |->
                [j \in 1..Len(profile.projects[i].bullets) |->
                   Id4("project", IntStr(i - 1), "bullet", IntStr(j - 1))]
                \o (IF Truthy(profile.projects[i].description)
                      THEN <<Id3("project", IntStr(i - 1), "description")>>
                      ELSE <<>>)])
  \o (IF profile.skills # <<>> THEN <<Id1("skills")>> ELSE <<>>)
  \o OtherSectionIds(profile.other_sections)

\* faulty variant: units are eligible only when a Requirement is given
IdentifyForRequirement(profile, jd, company_name, job_role) ==
  IF jd = NoJD THEN <<>>
  ELSE (IF Truthy(profile.summary) THEN <<Id1("summary")>> ELSE <<>>)
       \o (IF profile.skills # <<>> THEN <<Id1("skills")>> ELSE <<>>)

\* jd, company_name and job_role are parameters the body never reads
IdentifySectionsToEdit(profile, jd, company_name, job_role) ==
  (IF Truthy(profile.summary) THEN <<Id1("summary")>> ELSE <<>>)
  \o (IF profile.experiences # <<>>
        THEN <<Id1("experiences")>>
             \o Flatten([i \in 1..Len(profile.experiences) |->
                           ExperienceSections(i - 1, profile.experiences[i])])
        ELSE <<>>)
  \o (IF profile.projects # <<>>
        THEN <<Id1("projects")>>
             \o Flatten([i \in 1..Len(profile.projects) |->
                           ProjectSections(i - 1, profile.projects[i])])
        ELSE <<>>)
  \o (IF profile.skills # <<>> THEN <<Id1("skills")>> ELSE <<>>)
  \o (IF profile.certifications # <<>> THEN <<Id1("certifications")>> ELSE <<>>)
  \o (IF profile.awards # <<>> THEN <<Id1("awards")>> ELSE <<>>)
  \o OtherSectionIds(profile.other_sections)

\* ------------------------------------------------------ EditPlan (edit_plan)
EditActionTypes ==
  {"rewrite_bullet", "add_keyword", "remove_item", "reorder", "emphasize",
   "deemphasize", "add_section"}

MkAction(action_type, target, description, new_value) ==
  [action_type |-> action_type, target |-> target,
   description |-> description, new_value |-> new_value]

MkPlan(actions, keywords_to_add, estimate) ==
  [actions |-> actions, keywords_to_add |-> keywords_to_add,
   estimated_ats_score_improvement |-> estimate]

\* the plan returned when planning fails (rewrite_tailor_agent.py 214-218)
FailedPlan == MkPlan(<<>>, <<>>, 0)


\* --------------------------------------------------------- _create_edit_plan
\* A planner response is [kind |-> "raise"], [kind |-> "garbage"] (content that
\* json.loads rejects) or [kind |-> "json", actions, keywords_to_add, estimate],
\* estimate <<>> when the key is absent.  Priorities and estimates are in tenths.
DefaultEstimate == 2
UnitInterval == 0..10

ActionDataRaises(a) ==
  \/ a.action_type = None                                  \* KeyError
  \/ (a.action_type \in EditActionTypes /\ a.priority \notin UnitInterval)

\* faulty variant: a failed plan that keeps the default estimate
CreateEditPlanDefaulting(resp) == MkPlan(<<>>, <<>>, DefaultEstimate)

CreateEditPlan(resp) ==
  IF resp.kind # "json" THEN FailedPlan
  ELSE IF \E n \in 1..Len(resp.actions) : ActionDataRaises(resp.actions[n])
    THEN FailedPlan
  ELSE IF resp.estimate # <<>> /\ resp.estimate[1] \notin UnitInterval
    THEN FailedPlan
  ELSE LET known(a) == a.action_type \in EditActionTypes
           kept == SelectSeq(resp.actions, known)
       IN MkPlan([n \in 1..Len(kept) |->
                    MkAction(kept[n].action_type, kept[n].target,
                             kept[n].description, kept[n].new_value)],
                 resp.keywords_to_add,
                 IF resp.estimate = <<>> THEN DefaultEstimate ELSE resp.estimate[1])

\* _calculate_minimum_expected_edits; int(n * 0.7) is (7 * n) \div 10
Max(a, b) == IF a > b THEN a ELSE b
RECURSIVE SumSeq(_)
SumSeq(s) == IF s = <<>> THEN 0 ELSE Head(s) + SumSeq(Tail(s))

CalculateMinimumExpectedEdits(profile) ==
  (IF Truthy(profile.summary) THEN 1 ELSE 0)
  + SumSeq([i \in 1..Len(profile.experiences) |->
              IF profile.experiences[i].bullets # <<>>
                THEN Max(2, (7 * Len(profile.experiences[i].bullets)) \div 10)
                ELSE 0])
  + SumSeq([i \in 1..Len(profile.projects) |->
              (IF profile.projects[i].bullets # <<>>
                 THEN Max(1, (7 * Len(profile.projects[i].bullets)) \div 10)
                 ELSE 0)
              + (IF Truthy(profile.projects[i].description) THEN 1 ELSE 0)])
  + (IF profile.skills # <<>> THEN 1 ELSE 0)

\* len(edit_plan.actions) < min_expected_edits * 0.5
PlanTooSmall(n_actions, min_expected_edits) == 2 * n_actions < min_expected_edits

\* ------------------------------------------------------- Phase A operations
\* list[idx] with Python's negative indexing: the 1-based position, 0 = IndexError
PyPos(len, idx) ==
  IF idx >= 0 THEN (IF idx < len THEN idx + 1 ELSE 0)
  ELSE (IF len + idx >= 0 THEN len + idx + 1 ELSE 0)

\* action.new_value or action.description
ActionText(action) ==
  IF Truthy(action.new_value) THEN action.new_value ELSE action.description

Applied(profile) == [raised |-> FALSE, profile |-> profile]
Raised(profile) == [raised |-> TRUE, profile |-> profile]

\* faulty variant: the bullet is removed instead of replaced
DropExpBullet(profile, e, b, text) ==
  [profile EXCEPT !.experiences[e].bullets =
      SubSeq(@, 1, b - 1) \o SubSeq(@, b + 1, Len(@))]

SetExpBullet(profile, e, b, text) ==
  [profile EXCEPT !.experiences[e].bullets[b] = text]
SetProjBullet(profile, e, b, text) ==
  [profile EXCEPT !.projects[e].bullets[b] = text]

RewriteBullet(profile, action) ==
  LET parts == SplitUnderscore(action.target)
  IN IF ~(Len(parts) >= 3 /\ parts[1] = "experience") THEN Applied(profile)
     ELSE IF ~IsIntStr(parts[2]) THEN Raised(profile)          \* int(): ValueError
     ELSE LET exp_idx == ParseInt(parts[2])
              n == Len(profile.experiences)
          IN IF ~(exp_idx < n) THEN Applied(profile)
             ELSE IF PyPos(n, exp_idx) = 0 THEN Raised(profile)  \* IndexError
             ELSE LET e == PyPos(n, exp_idx)
                      bullets == profile.experiences[e].bullets
                  IN IF ~(parts[3] = "bullet" /\ Len(parts) >= 4)
                       THEN Applied(profile)
                     ELSE IF ~IsIntStr(parts[4]) THEN Raised(profile)
                     ELSE LET bullet_idx == ParseInt(parts[4])
                          IN IF ~(bullet_idx < Len(bullets)) THEN Applied(profile)
                             ELSE IF PyPos(Len(bullets), bullet_idx) = 0
                               THEN Raised(profile)
                             ELSE Applied(SetExpBullet(profile, e,
                                            PyPos(Len(bullets), bullet_idx),
                                            ActionText(action)))

\* faulty variant: the keyword goes to the skills list
AddKeywordToSkills(profile, action) ==
  Applied([profile EXCEPT !.skills = Append(@, ActionText(action))])

AddKeyword(profile, action) ==
  IF profile.experiences # <<>>
    THEN Applied([profile EXCEPT !.experiences[1].technologies =
                     Append(@, ActionText(action))])
    ELSE Applied(profile)

\* the dispatch on action.action_type inside the try: the profile as the
\* handler left it, and whether the handler raised
ActionOutcome(profile, action) ==
  CASE action.action_type = "rewrite_bullet" -> RewriteBullet(profile, action)
    [] action.action_type = "add_keyword" -> AddKeyword(profile, action)
    [] OTHER -> Applied(profile)

\* one iteration of the loop over edit_plan.actions, with its try/except: the
\* except clause logs, it undoes nothing
ApplyAction(profile, action) == ActionOutcome(profile, action).profile

\* faulty variant: the try is around the loop, an exception ends the batch
RestOfPlanAborted(rest, raised) == IF raised THEN <<>> ELSE Tail(rest)

\* the try is inside the loop: after an exception the loop takes the next action
RestOfPlan(rest, raised) == Tail(rest)


\* ------------------------------------------------ _evaluate_edit_completeness
\* sum(1 for a, b in zip(xs, ys) if a != b)
ZipDiffs(xs, ys) ==
  Cardinality({n \in 1..Min(Len(xs), Len(ys)) : xs[n] # ys[n]})

\* the bullets of both entries are truthy, then the zip of the bullets
BulletChanges(orig_entry, new_entry) ==
  IF orig_entry.bullets # <<>> /\ new_entry.bullets # <<>>
    THEN ZipDiffs(orig_entry.bullets, new_entry.bullets)
    ELSE 0

ExperiencesChanges(original, edited) ==
  SumSeq([n \in 1..Min(Len(original.experiences), Len(edited.experiences)) |->
            BulletChanges(original.experiences[n], edited.experiences[n])])

ProjectsChanges(original, edited) ==
  SumSeq([n \in 1..Min(Len(original.projects), Len(edited.projects)) |->
            BulletChanges(original.projects[n], edited.projects[n])
            + (IF original.projects[n].description # edited.projects[n].description
                 THEN 1 ELSE 0)])

\* section.startswith("experience_")
StartsWithExperience(section) ==
  Len(section) >= 2 /\ section[1] = "experience" /\ section[2] = "_"

SectionEdited(original, edited, section) ==
  IF section = Id1("summary") THEN original.summary # edited.summary
  ELSE IF section = Id1("experiences") THEN ExperiencesChanges(original, edited) > 0
  ELSE IF StartsWithExperience(section)
    THEN LET parts == SplitUnderscore(section)
         IN IF Len(parts) < 2 \/ ~IsIntStr(parts[2]) THEN FALSE
            ELSE LET exp_idx == ParseInt(parts[2])
                 IN /\ exp_idx < Len(original.experiences)
                    /\ exp_idx < Len(edited.experiences)
                    /\ PyPos(Len(original.experiences), exp_idx) # 0
                    /\ PyPos(Len(edited.experiences), exp_idx) # 0
                    /\ BulletChanges(
                         original.experiences[PyPos(Len(original.experiences), exp_idx)],
                         edited.experiences[PyPos(Len(edited.experiences), exp_idx)]) > 0
  ELSE IF section = Id1("projects") THEN ProjectsChanges(original, edited) > 0
  ELSE IF section = Id1("skills") THEN Len(original.skills) # Len(edited.skills)
  ELSE FALSE

\* the exception the body of the try of 834-845 ends with, "" when none
ExperienceUnitRaises(original, edited, section) ==
  LET parts == SplitUnderscore(section)
  IN IF Len(parts) < 2 \/ ~IsIntStr(parts[2]) THEN "ValueError"
     ELSE LET exp_idx == ParseInt(parts[2])
          IN IF /\ exp_idx < Len(original.experiences)
                /\ exp_idx < Len(edited.experiences)
                /\ (\/ PyPos(Len(original.experiences), exp_idx) = 0
                    \/ PyPos(Len(edited.experiences), exp_idx) = 0)
               THEN "IndexError" ELSE ""

\* except (ValueError, IndexError): pass
CaughtInEvaluate == {"ValueError", "IndexError"}

\* the exception _evaluate_edit_completeness ends with, "" when it returns
EvaluateRaises(original, edited, sections) ==
  LET escapes(n) ==
        /\ sections[n] \notin {Id1("summary"), Id1("experiences")}
        /\ StartsWithExperience(sections[n])
        /\ ExperienceUnitRaises(original, edited, sections[n]) \notin CaughtInEvaluate \cup {""}
  IN IF \E n \in 1..Len(sections) : escapes(n)
       THEN ExperienceUnitRaises(original, edited,
              sections[CHOOSE n \in 1..Len(sections) : escapes(n)])
       ELSE ""

\* faulty variant: the number of changes is added instead of one per section
EvaluateCountingChanges(original, edited, sections) ==
  LET isMissing(sec) == ~SectionEdited(original, edited, sec)
  IN [sections_identified |-> Len(sections),
      sections_edited |-> Len(sections) - Len(SelectSeq(sections, isMissing))
                          + ExperiencesChanges(original, edited),
      missing_edits |-> SelectSeq(sections, isMissing)]

\* completeness_score is sections_edited / sections_identified, 0.0 when the
\* latter is 0; the record keeps the two counts and the missing list
EvaluateEditCompleteness(original, edited, sections) ==
  LET isEdited(sec) == SectionEdited(original, edited, sec)
      isMissing(sec) == ~SectionEdited(original, edited, sec)
  IN [sections_identified |-> Len(sections),
      sections_edited |-> Len(SelectSeq(sections, isEdited)),
      missing_edits |-> SelectSeq(sections, isMissing)]

\* 872-875: the score as the fraction <<numerator, denominator>>
CompletenessScore(evaluation) ==
  IF evaluation.sections_identified > 0
    THEN <<evaluation.sections_edited, evaluation.sections_identified>>
    ELSE <<0, 1>>

ScoreIsZero(evaluation) ==
  evaluation.sections_identified = 0 \/ evaluation.sections_edited = 0

\* --------------------------------------------------- forced pass: pure parts
\* [t for t in jd.technical_keywords if t.lower() not in current_techs]
MissingTechs(jd, technologies) ==
  LET current == {Lower(technologies[n]) : n \in 1..Len(technologies)}
      absent(t) == Lower(t) \notin current
  IN SelectSeq(jd.technical_keywords, absent)

\* [s.skill for s in required + preferred if s.skill.lower() not in current]
MissingSkills(jd, skills) ==
  LET current == {Lower(skills[n]) : n \in 1..Len(skills)}
      absent(t) == Lower(t) \notin current
  IN SelectSeq(SkillNames(jd.required_skills \o jd.preferred_skills), absent)

AddMissingSkills(profile, jd) ==
  [profile EXCEPT !.skills = @ \o Take(MissingSkills(jd, @), SkillCap)]

\* faulty variant: every missing technology is added, without the cap
AddAllExperienceTechs(profile, e, jd) ==
  [profile EXCEPT !.experiences[e].technologies = @ \o MissingTechs(jd, @)]

AddExperienceTechs(profile, e, jd) ==
  [profile EXCEPT !.experiences[e].technologies =
      @ \o Take(MissingTechs(jd, @), ExpTechCap)]

RECURSIVE AddProjectTechsFrom(_, _, _)
AddProjectTechsFrom(profile, e, jd) ==
  IF e > Len(profile.projects) THEN profile
  ELSE AddProjectTechsFrom(
         [profile EXCEPT !.projects[e].technologies =
             @ \o Take(MissingTechs(jd, @), ProjTechCap)],
         e + 1, jd)

\* role_keywords: [w for w in job_role.lower().split() if len(w) > 4]
RoleKeywords(job_role) ==
  IF Truthy(job_role)
    THEN LET long(w) == Len(w) > RoleWordMin
         IN SelectSeq(Split(Lower(job_role)), long)
    ELSE <<>>


\* ------------------------------------------------- the generation capability
\* client.chat.completions.create either raises or returns content
GenRaise == [ok |-> FALSE, content |-> <<>>]
GenOk(text) == [ok |-> TRUE, content |-> text]
NoCall == [ok |-> FALSE, content |-> <<"-">>]

Capitalize(t) == IF t = <<>> THEN t ELSE <<UpperChar(Head(t))>> \o Tail(t)

\* what the backend may answer when asked to rewrite `text`: nothing, blanks,
\* the text again up to letter case, or new text with a leading blank
Responses(text) ==
  {GenRaise, GenOk(<<>>), GenOk(<<" ">>), GenOk(Capitalize(text)),
   GenOk(<<" ">> \o TxNew)}

NewBulletResponses == {GenRaise, GenOk(<<>>), GenOk(TxAdded \o <<" ">>)}

\* faulty variant: a placeholder text is returned when the call raised
RewriteBulletAsyncPlaceholder(bullet, keywords, resp) ==
  IF keywords = <<>> THEN NoText
  ELSE IF resp.ok THEN Strip(resp.content) ELSE TxNew

\* response.choices[0].message.content.strip(), None when the call raised;
\* no call (None) when there is no keyword
RewriteBulletAsync(bullet, keywords, resp) ==
  IF keywords = <<>> THEN NoText
  ELSE IF resp.ok THEN Strip(resp.content) ELSE NoText

\* faulty variant: the error text is returned when the call raised
ImproveBulletReturningError(bullet, resp) ==
  IF resp.ok THEN Strip(resp.content) ELSE <<"E", "r", "r">>

ImproveBulletGenerally(bullet, resp) ==
  IF resp.ok
    THEN LET improved == Strip(resp.content)
         IN IF Lower(improved) # Lower(bullet) THEN improved ELSE NoText
    ELSE NoText

RewriteSummary(summary, resp) == IF resp.ok THEN Strip(resp.content) ELSE summary
RewriteSummaryForRole(summary, resp) ==
  IF resp.ok THEN Strip(resp.content) ELSE summary
RewriteProjectDescription(description, resp) ==
  IF resp.ok THEN Strip(resp.content) ELSE description

RewriteBulletForRole(bullet, job_role, keywords, resp) ==
  IF ~Truthy(job_role) /\ keywords = <<>> THEN NoText
  ELSE IF resp.ok THEN Strip(resp.content) ELSE NoText

CreateNewBulletWithKeywords(resp) == IF resp.ok THEN Strip(resp.content) ELSE NoText

\* the responses to draw from: one placeholder when the helper makes no call
CallResponses(called, text) == IF called THEN Responses(text) ELSE {NoCall}

\* not new_bullet or new_bullet.strip().lower() == original_bullet.strip().lower()
Unchanged(new_bullet, original_bullet) ==
  ~Truthy(new_bullet) \/ Lower(Strip(new_bullet)) = Lower(Strip(original_bullet))

\* new_bullet and new_bullet.strip() and it differs from the original
Changed(new_bullet, original_bullet) ==
  /\ Truthy(new_bullet)
  /\ Strip(new_bullet) # <<>>
  /\ Lower(Strip(new_bullet)) # Lower(Strip(original_bullet))

\* ----------------------------------------------------------- loop positions
BulletPositions(entries) ==
  Flatten([e \in 1..Len(entries) |->
             [b \in 1..Len(entries[e].bullets) |-> <<e, b>>]])

\* step 3 of _apply_edits: per project its description (0), then its bullets
ProjectUnits(projects) ==
  Flatten([e \in 1..Len(projects) |->
             (IF Truthy(projects[e].description) THEN << <<e, 0>> >> ELSE <<>>)
             \o [b \in 1..Len(projects[e].bullets) |-> <<e, b>>]])

OtherItems(sections) ==
  Flatten([e \in 1..Len(sections) |->
             [b \in 1..Len(sections[e].items) |-> <<e, b>>]])

\* the branch of _apply_edits 382-391
Branch(jd_, company, role) ==
  IF jd_ # NoJD THEN "jd"
  ELSE IF Truthy(company) \/ Truthy(role) THEN "role"
  ELSE "general"

StageOrder(branch) ==
  CASE branch = "jd" ->
         <<"jd_exp_A", "jd_extra", "jd_proj_A", "jd_tail", "p3", "skills4",
           "other", "finish">>
    [] branch = "role" -> <<"role_exp", "role_proj", "p3", "finish">>
    [] OTHER -> <<"gen_exp", "p3", "finish">>

\* how many iterations a stage makes on the working copy
StageUnits(stage, profile) ==
  CASE stage \in {"jd_exp_A", "role_exp", "gen_exp"} ->
         Len(BulletPositions(profile.experiences))
    [] stage = "jd_extra" -> Len(profile.experiences)
    [] stage \in {"jd_proj_A", "role_proj"} ->
         Len(BulletPositions(profile.projects))
    [] stage = "p3" -> Len(ProjectUnits(profile.projects))
    [] stage = "skills4" -> IF profile.skills # <<>> THEN 1 ELSE 0
    [] stage = "other" -> Len(OtherItems(profile.other_sections))
    [] OTHER -> 1

RECURSIVE EnterFrom(_, _, _)
EnterFrom(order, n, profile) ==
  IF n >= Len(order) THEN [pc |-> order[Len(order)], cur |-> 1]
  ELSE IF StageUnits(order[n], profile) > 0 THEN [pc |-> order[n], cur |-> 1]
  ELSE EnterFrom(order, n + 1, profile)

StageIndex(order, stage) == CHOOSE n \in 1..Len(order) : order[n] = stage

\* the position after unit `c` of `stage` has been handled
After(branch, stage, c, profile) ==
  IF c < StageUnits(stage, profile) THEN [pc |-> stage, cur |-> c + 1]
  ELSE EnterFrom(StageOrder(branch),
                 StageIndex(StageOrder(branch), stage) + 1, profile)


\* ------------------------------------------------------------------ inputs
BulletPool == <<TxBuiltApis, TxLedTeam, TxShipsCode>>
PoolBullet(n) == BulletPool[((n - 1) % Len(BulletPool)) + 1]
Bullets(n) == [b \in 1..n |-> PoolBullet(b)]

EmptyProfile == MkProfile(NoText, <<>>, <<>>, <<>>, <<>>, <<>>, <<>>, <<>>)

\* one experience with MaxBullets bullets, a summary, skills and education
DeepProfile ==
  MkProfile(TxDev, << MkExperience(Bullets(MaxBullets), <<KwSql>>) >>, <<>>,
            <<KwApi>>, <<"BSc">>, <<>>, <<>>, <<>>)

\* MaxExperiences experiences, the odd ones with a bullet, the even ones bare
WideProfile ==
  MkProfile(NoText,
            [e \in 1..MaxExperiences |->
               IF e % 2 = 1 THEN MkExperience(<<PoolBullet(e)>>, <<>>)
               ELSE MkExperience(<<>>, <<KwJava>>)],
            <<>>, <<>>, <<>>, <<>>, <<>>, <<>>)

\* projects, certifications, awards and other sections
ProjectProfile ==
  MkProfile(NoText, <<>>,
            << MkProject(TxDemo, <<TxShipsCode>>, <<>>),
               MkProject(NoText, <<>>, <<KwJava>>),
               MkProject(TxTalk, <<>>, <<>>) >>,
            <<>>, <<>>, <<"cert">>, <<"award">>,
            << MkSection("Leadership", <<MkItem(TxTalk), MkItem(NoText)>>),
               MkSection("Hobbies", <<>>) >>)

Profiles == {NoProfile, EmptyProfile, DeepProfile, WideProfile, ProjectProfile}

FullJD ==
  MkJD(<<Req(KwApi, 8)>>, <<Req(KwJava, 5)>>, <<>>, <<KwJava, KwSql>>)
\* a Requirement without required or preferred skills
KeywordOnlyJD == MkJD(<<>>, <<>>, <<KwGo, KwRebuilt>>, <<>>)
\* a Requirement naming more skills and technical keywords than one pass adds
ManySkills == [n \in 1..(SkillCap + 1) |-> Req(<<"q", LowerLetters[n]>>, 5)]
ManyTechs == [n \in 1..(ExpTechCap + 1) |-> <<"z", LowerLetters[n]>>]
ManyJD == MkJD(SubSeq(ManySkills, 1, SkillCap), SubSeq(ManySkills, SkillCap + 1, SkillCap + 1), <<>>, ManyTechs)
JDs == {NoJD, MalformedJD, FullJD, KeywordOnlyJD, ManyJD}

Acme == <<"A","c","m","e">>
\* <<jd, company_name, job_role>>: every Requirement alone, the three ways to
\* name a company or role without one, and a Requirement with both
Targets ==
  {<<j, NoText, NoText>> : j \in JDs}
  \cup {<<NoJD, Acme, NoText>>, <<NoJD, NoText, RoleDataEngineer>>,
        <<NoJD, Acme, RoleDataEngineer>>, <<FullJD, Acme, RoleDataEngineer>>}

T(a, b, c, d) == Id4(a, b, c, d)
ActionPool ==
  { [action_type |-> "rewrite_bullet", target |-> T("experience", "0", "bullet", "0"),
     description |-> TxPlan, new_value |-> TxPlan, priority |-> 9],
    [action_type |-> "rewrite_bullet", target |-> T("experience", "x", "bullet", "0"),
     description |-> TxPlan, new_value |-> TxPlan, priority |-> 9],
    [action_type |-> "rewrite_bullet", target |-> T("experience", "0", "bullet", "-1"),
     description |-> <<>>, new_value |-> NoText, priority |-> 5],
    [action_type |-> "add_keyword", target |-> Id1("skills"),
     description |-> KwGo, new_value |-> NoText, priority |-> 5],
    [action_type |-> "emphasize", target |-> Id1("summary"),
     description |-> <<>>, new_value |-> NoText, priority |-> 5],
    [action_type |-> "update_summary", target |-> Id1("summary"),
     description |-> TxPlan, new_value |-> TxPlan, priority |-> 9],
    [action_type |-> "rewrite_bullet", target |-> T("experience", "0", "bullet", "0"),
     description |-> TxPlan, new_value |-> TxPlan, priority |-> 15] }

RECURSIVE SeqsUpTo(_, _)
SeqsUpTo(S, n) ==
  IF n = 0 THEN {<<>>}
  ELSE LET shorter == SeqsUpTo(S, n - 1)
       IN shorter \cup {Append(q, x) : q \in shorter, x \in S}

PlannerResponses ==
  {[kind |-> "raise", actions |-> <<>>, keywords_to_add |-> <<>>, estimate |-> <<>>],
   [kind |-> "garbage", actions |-> <<>>, keywords_to_add |-> <<>>, estimate |-> <<>>]}
  \cup {[kind |-> "json", actions |-> q, keywords_to_add |-> <<>>, estimate |-> <<>>] :
          q \in SeqsUpTo(ActionPool, MaxPlanActions)}
  \cup {[kind |-> "json", actions |-> <<>>, keywords_to_add |-> <<>>, estimate |-> <<20>>]}

\* ------------------------------------------------------------------- state
VARIABLES
  heap,              \* object store: reference -> Profile
  caller_profile,    \* the Profile value the caller passed
  jd, company_name, job_role,
  backend,           \* "down": the generation client raises on every call
  pc,                \* position of the customization
  sections_to_edit,  \* process: result of the section identifier
  edit_plan,         \* process: the plan (action count, keywords, estimate)
  planner,           \* how the planner call ended ("" before it)
  plan_warning,      \* process 65-66: the too-small-plan warning was logged
  pending,           \* _apply_edits: actions the Phase A loop has not reached
  edited_ref,        \* _apply_edits: reference of edited_profile, 0 before
  cur,               \* index of the unit the current loop is at
  relevant_keywords, \* forced pass: keywords selected for the current bullet
  new_bullet,        \* forced pass: the local new_bullet
  gen,               \* generation calls made for the current unit
  evaluation,        \* process: the completeness report
  result,            \* what customize_resume returned
  objects,           \* concurrent jobs: the object store they share
  jobs,              \* concurrent jobs: each job's locals and result
  understanding,     \* job understanding: the data, the Requirement built
  selecting,         \* keyword selection for one bullet, on its own
  normalizing,       \* technology normalizer: the name given, the result
  execution,         \* BaseAgent.execute: the request, its position, the result
  job_results,       \* backend: the results stored by job id
  background_tasks,  \* backend: each issued job's request and position
  polled             \* backend: what the polls of each job id returned

vars ==
  <<heap, caller_profile, jd, company_name, job_role, backend, pc,
    sections_to_edit,
    edit_plan, planner, plan_warning, pending, edited_ref, cur,
    relevant_keywords, new_bullet, gen, evaluation, result, objects, jobs,
    understanding, selecting, normalizing, execution, job_results,
    background_tasks, polled>>

\* the state of the background jobs and of the job understanding agent, which
\* a single customization leaves alone
job_store == <<job_results, background_tasks, polled>>
aside == <<selecting, normalizing, execution, job_store>>
outside == <<objects, jobs, understanding, aside>>

NoJobStore ==
  /\ job_results = NoneRec
  /\ background_tasks = NoneRec
  /\ polled = NoneRec

\* the components a run does not use are not there
Idle ==
  /\ selecting = NoneRec
  /\ normalizing = NoneRec
  /\ execution = NoneRec
  /\ NoJobStore

OrigRef == 1
Refs == {1, 2}

\* faulty variant: no copy, the working profile is the caller's object
SameObjectRef(ref) == ref

\* profile.model_copy(deep=True): a new object
ModelCopyRef(ref) == ref + 1

NoGen == [calls |-> <<>>, raised |-> FALSE]
\* the log after one more call of `kind` answered by `resp`
Logged(log, kind, resp) ==
  IF resp = NoCall THEN log
  ELSE [calls |-> Append(log.calls, kind),
        raised |-> (log.calls = <<>> \/ log.raised) /\ ~resp.ok]

Init ==
  /\ caller_profile \in Profiles
  /\ heap = [r \in Refs |-> IF r = OrigRef THEN caller_profile ELSE NoProfile]
  /\ \E t \in Targets : jd = t[1] /\ company_name = t[2] /\ job_role = t[3]
  /\ backend \in {"up", "down"}
  /\ pc = "start"
  /\ sections_to_edit = <<>>
  /\ edit_plan = NoneRec
  /\ planner = ""
  /\ plan_warning = FALSE
  /\ pending = <<>>
  /\ edited_ref = 0
  /\ cur = 0
  /\ relevant_keywords = <<>>
  /\ new_bullet = NoText
  /\ gen = NoGen
  /\ evaluation = NoneRec
  /\ result = NoneRec
  /\ objects = <<>>
  /\ jobs = <<>>
  /\ understanding = NoneRec
  /\ Idle

Edited == heap[edited_ref]
Original == heap[OrigRef]

\* faulty variant: a failure that still hands out the working copy
FailureWithProfile(error) ==
  [success |-> FALSE, edited_profile |-> 2, error |-> error]

Failure(error) == [success |-> FALSE, edited_profile |-> 0, error |-> error]
Success(ref) == [success |-> TRUE, edited_profile |-> ref, error |-> None]


inputs == <<caller_profile, jd, company_name, job_role, backend>>

\* the answers the generation client can give now, out of `answers`
Backend(answers) ==
  IF backend = "down" THEN answers \cap {GenRaise, NoCall} ELSE answers
PlannerBackend ==
  IF backend = "down" THEN {r \in PlannerResponses : r.kind = "raise"}
  ELSE PlannerResponses
locals == <<relevant_keywords, new_bullet, gen>>
planning == <<sections_to_edit, edit_plan, planner, plan_warning, pending>>

\* ---------------------------------------- customize_resume / execute / process
\* execute 37-81: a Profile is no str, so validation, moderation and sanitizing
\* pass it on; process 49 reads profile.experiences; process 52 identifies
Start ==
  /\ pc = "start"
  /\ IF Original = NoProfile
       THEN /\ result' = Failure("AttributeError")
            /\ pc' = "done"
            /\ UNCHANGED sections_to_edit
       ELSE /\ sections_to_edit' =
                 IdentifySectionsToEdit(Original, jd, company_name, job_role)
            /\ pc' = "plan"
            /\ UNCHANGED result
  /\ UNCHANGED <<heap, inputs, outside, edit_plan, planner, plan_warning, pending,
                 edited_ref, cur, locals, evaluation>>

\* how the planner call ended: it raised, its content was no JSON, the JSON
\* was rejected while the plan was built, or a plan was built
PlannerOutcome(resp) ==
  IF resp.kind # "json" THEN resp.kind
  ELSE IF \/ \E n \in 1..Len(resp.actions) : ActionDataRaises(resp.actions[n])
          \/ (resp.estimate # <<>> /\ resp.estimate[1] \notin UnitInterval)
    THEN "invalid"
  ELSE "ok"

\* process 56-66: _create_edit_plan (its prompt is built from jd before the try)
Plan ==
  /\ pc = "plan"
  /\ IF jd = MalformedJD
       THEN /\ result' = Failure("AttributeError")
            /\ pc' = "done"
            /\ UNCHANGED <<edit_plan, planner, plan_warning, pending>>
       ELSE /\ \E resp \in PlannerBackend :
                 LET plan == CreateEditPlan(resp)
                 IN /\ edit_plan' =
                         [n_actions |-> Len(plan.actions),
                          keywords_to_add |-> plan.keywords_to_add,
                          estimated_ats_score_improvement |->
                             plan.estimated_ats_score_improvement]
                    /\ pending' = plan.actions
                    /\ planner' = PlannerOutcome(resp)
                    /\ plan_warning' =
                         PlanTooSmall(Len(plan.actions),
                                      CalculateMinimumExpectedEdits(Original))
            /\ pc' = "copy"
            /\ UNCHANGED result
  /\ UNCHANGED <<heap, inputs, outside, sections_to_edit, edited_ref, cur, locals,
                 evaluation>>

\* faulty variant: the forced pass does not wait for the loop
LoopSkipped(rest) == TRUE

\* the loop over edit_plan.actions has no action left
PhaseAFinished(rest) == rest = <<>>

\* _apply_edits 331-340: the working copy
BeginApply ==
  /\ pc = "copy"
  /\ edited_ref' = ModelCopyRef(OrigRef)
  /\ heap' = [heap EXCEPT ![ModelCopyRef(OrigRef)] = heap[OrigRef]]
  /\ pc' = IF PhaseAFinished(pending) THEN "summary" ELSE "phaseA"
  /\ UNCHANGED <<inputs, outside, sections_to_edit, edit_plan, planner, plan_warning, pending,
                 cur, locals, evaluation, result>>

\* _apply_edits 343-354: one action of the plan
PhaseA ==
  /\ pc = "phaseA"
  /\ heap' = [heap EXCEPT ![edited_ref] = ApplyAction(@, Head(pending))]
  /\ LET rest == RestOfPlan(pending, ActionOutcome(Edited, Head(pending)).raised)
     IN /\ pending' = rest
        /\ pc' = IF PhaseAFinished(rest) THEN "summary" ELSE "phaseA"
  /\ UNCHANGED <<inputs, outside, sections_to_edit, edit_plan, planner, plan_warning,
                 edited_ref, cur, locals, evaluation, result>>

TheBranch == Branch(jd, company_name, job_role)

\* faulty variant: whatever the summary call returned is taken
SummaryAlwaysTaken(new_summary, summary) == TRUE

\* new_summary and new_summary.strip() and it differs, both stripped (370)
SummaryAccepted(new_summary, summary) ==
  Truthy(new_summary) /\ Strip(new_summary) # <<>>
  /\ Strip(new_summary) # Strip(summary)

\* _apply_edits 359-379: the summary
Summary ==
  /\ pc = "summary"
  /\ LET p == Edited
         called == Truthy(p.summary) /\ TheBranch # "general"
     IN \E resp \in Backend(CallResponses(called, p.summary)) :
          LET new_summary ==
                IF TheBranch = "jd" THEN RewriteSummary(p.summary, resp)
                ELSE RewriteSummaryForRole(p.summary, resp)
              accepted ==
                /\ called
                /\ IF TheBranch = "jd" THEN SummaryAccepted(new_summary, p.summary)
                   ELSE Truthy(new_summary) /\ new_summary # p.summary
              q == IF accepted THEN [p EXCEPT !.summary = new_summary] ELSE p
              next == EnterFrom(StageOrder(TheBranch), 1, q)
          IN /\ heap' = [heap EXCEPT ![edited_ref] = q]
             /\ gen' = Logged(NoGen, "summary", resp)
             /\ new_bullet' = IF called THEN new_summary ELSE NoText
             /\ pc' = next.pc
             /\ cur' = next.cur
  /\ UNCHANGED <<inputs, outside, planning, edited_ref, relevant_keywords, evaluation,
                 result>>


\* ------------------------------------ _incorporate_jd_keywords_extensive
\* faulty variant: no fallback to the priority skills
SelectMatchedKeywordsOnly(bullet, jd_, keywords_to_add) ==
  FindRelevantKeywords(bullet, GetAllKeywords(jd_) \o keywords_to_add
                               \o GetPrioritySkills(jd_, PriorityPool))

\* 661-665: the keywords for an experience bullet, with the fallback
SelectExperienceKeywords(bullet, jd_, keywords_to_add) ==
  LET all_keywords == GetAllKeywords(jd_) \o keywords_to_add
      priority_keywords == GetPrioritySkills(jd_, PriorityPool)
      found == FindRelevantKeywords(bullet, all_keywords \o priority_keywords)
  IN IF found = <<>> THEN Take(priority_keywords, FallbackLimit) ELSE found

\* 728-730: the keywords for a project bullet, with the fallback
SelectProjectKeywords(bullet, jd_) ==
  LET priority_keywords == GetPrioritySkills(jd_, PriorityPool)
      found == FindRelevantKeywords(bullet, priority_keywords)
  IN IF found = <<>> THEN Take(priority_keywords, FallbackLimit) ELSE found

ExpBulletAt(profile, c) ==
  LET pos == BulletPositions(profile.experiences)[c]
  IN profile.experiences[pos[1]].bullets[pos[2]]
ProjBulletAt(profile, c) ==
  LET pos == BulletPositions(profile.projects)[c]
  IN profile.projects[pos[1]].bullets[pos[2]]
SetExpBulletAt(profile, c, text) ==
  LET pos == BulletPositions(profile.experiences)[c]
  IN SetExpBullet(profile, pos[1], pos[2], text)
SetProjBulletAt(profile, c, text) ==
  LET pos == BulletPositions(profile.projects)[c]
  IN SetProjBullet(profile, pos[1], pos[2], text)

\* 659-679: keyword selection and the first call for an experience bullet
JdExpFirst ==
  /\ pc = "jd_exp_A"
  /\ LET bullet == ExpBulletAt(Edited, cur)
         kws == SelectExperienceKeywords(bullet, jd, edit_plan.keywords_to_add)
     IN \E resp \in Backend(Responses(bullet)) :
          /\ relevant_keywords' = kws
          /\ new_bullet' = IF kws # <<>> THEN RewriteBulletAsync(bullet, kws, resp)
                           ELSE ImproveBulletGenerally(bullet, resp)
          /\ gen' = Logged(NoGen, IF kws # <<>> THEN "keyword" ELSE "general", resp)
  /\ pc' = "jd_exp_B"
  /\ UNCHANGED <<heap, inputs, outside, planning, edited_ref, cur, evaluation, result>>

\* 682-685: the second keyword call
JdExpSecond ==
  /\ pc = "jd_exp_B"
  /\ LET bullet == ExpBulletAt(Edited, cur)
         retry == (~Truthy(new_bullet) \/ Strip(new_bullet) = <<>>
                   \/ Lower(Strip(new_bullet)) = Lower(Strip(bullet)))
                  /\ relevant_keywords # <<>>
     IN \E resp \in Backend(CallResponses(retry, bullet)) :
          /\ new_bullet' = IF retry
                             THEN RewriteBulletAsync(bullet, relevant_keywords, resp)
                             ELSE new_bullet
          /\ gen' = Logged(gen, "keyword", resp)
  /\ pc' = "jd_exp_C"
  /\ UNCHANGED <<heap, inputs, outside, planning, edited_ref, cur, relevant_keywords,
                 evaluation, result>>

\* 688-698: the general-improvement call and the assignment
JdExpFinal ==
  /\ pc = "jd_exp_C"
  /\ LET p == Edited
         bullet == ExpBulletAt(p, cur)
         retry == Unchanged(new_bullet, bullet)
     IN \E resp \in Backend(CallResponses(retry, bullet)) :
          LET nb == IF retry THEN ImproveBulletGenerally(bullet, resp) ELSE new_bullet
              q == IF Changed(nb, bullet) THEN SetExpBulletAt(p, cur, nb) ELSE p
              next == After("jd", "jd_exp_A", cur, q)
          IN /\ heap' = [heap EXCEPT ![edited_ref] = q]
             /\ new_bullet' = nb
             /\ gen' = Logged(gen, "general", resp)
             /\ pc' = next.pc
             /\ cur' = next.cur
  /\ UNCHANGED <<inputs, outside, planning, edited_ref, relevant_keywords, evaluation,
                 result>>

\* 703-718: per experience, a new bullet and the missing technologies
JdExpExtra ==
  /\ pc = "jd_extra"
  /\ LET p == Edited
         exp == p.experiences[cur]
         priority_keywords == GetPrioritySkills(jd, PriorityPool)
         called == exp.bullets # <<>> /\ Len(exp.bullets) < ShortBulletLimit
                   /\ priority_keywords # <<>>
     IN \E resp \in Backend(IF called THEN NewBulletResponses ELSE {NoCall}) :
          LET text == IF called THEN CreateNewBulletWithKeywords(resp) ELSE NoText
              p1 == IF Truthy(text)
                      THEN [p EXCEPT !.experiences[cur].bullets = Append(@, text)]
                      ELSE p
              q == AddExperienceTechs(p1, cur, jd)
              next == After("jd", "jd_extra", cur, q)
          IN /\ heap' = [heap EXCEPT ![edited_ref] = q]
             /\ new_bullet' = text
             /\ gen' = Logged(NoGen, "new_bullet", resp)
             /\ pc' = next.pc
             /\ cur' = next.cur
  /\ relevant_keywords' = <<>>
  /\ UNCHANGED <<inputs, outside, planning, edited_ref, evaluation, result>>

\* 726-732: keyword selection and the keyword call for a project bullet
JdProjFirst ==
  /\ pc = "jd_proj_A"
  /\ LET bullet == ProjBulletAt(Edited, cur)
         kws == SelectProjectKeywords(bullet, jd)
     IN \E resp \in Backend(CallResponses(kws # <<>>, bullet)) :
          /\ relevant_keywords' = kws
          /\ new_bullet' = RewriteBulletAsync(bullet, kws, resp)
          /\ gen' = Logged(NoGen, "keyword", resp)
  /\ pc' = "jd_proj_C"
  /\ UNCHANGED <<heap, inputs, outside, planning, edited_ref, cur, evaluation, result>>

\* 735-741: the general-improvement call and the assignment
JdProjFinal ==
  /\ pc = "jd_proj_C"
  /\ LET p == Edited
         bullet == ProjBulletAt(p, cur)
         retry == Unchanged(new_bullet, bullet)
     IN \E resp \in Backend(CallResponses(retry, bullet)) :
          LET nb == IF retry THEN ImproveBulletGenerally(bullet, resp) ELSE new_bullet
              q == IF Changed(nb, bullet) THEN SetProjBulletAt(p, cur, nb) ELSE p
              next == After("jd", "jd_proj_A", cur, q)
          IN /\ heap' = [heap EXCEPT ![edited_ref] = q]
             /\ new_bullet' = nb
             /\ gen' = Logged(gen, "general", resp)
             /\ pc' = next.pc
             /\ cur' = next.cur
  /\ UNCHANGED <<inputs, outside, planning, edited_ref, relevant_keywords, evaluation,
                 result>>

\* 745-765: project technologies, then the missing skills
JdTail ==
  /\ pc = "jd_tail"
  /\ LET q == AddMissingSkills(AddProjectTechsFrom(Edited, 1, jd), jd)
         next == After("jd", "jd_tail", cur, q)
     IN /\ heap' = [heap EXCEPT ![edited_ref] = q]
        /\ pc' = next.pc
        /\ cur' = next.cur
  /\ relevant_keywords' = <<>>
  /\ new_bullet' = NoText
  /\ gen' = NoGen
  /\ UNCHANGED <<inputs, outside, planning, edited_ref, evaluation, result>>


\* ------------------------------------------ _incorporate_company_role_edits
\* 467-473: an experience bullet rewritten for the role
RoleExp ==
  /\ pc = "role_exp"
  /\ LET p == Edited
         bullet == ExpBulletAt(p, cur)
         kws == RoleKeywords(job_role)
     IN \E resp \in Backend(CallResponses(Truthy(job_role) \/ kws # <<>>, bullet)) :
          LET nb == RewriteBulletForRole(bullet, job_role, kws, resp)
              q == IF Truthy(nb) THEN SetExpBulletAt(p, cur, nb) ELSE p
              next == After("role", "role_exp", cur, q)
          IN /\ heap' = [heap EXCEPT ![edited_ref] = q]
             /\ relevant_keywords' = kws
             /\ new_bullet' = nb
             /\ gen' = Logged(NoGen, "role", resp)
             /\ pc' = next.pc
             /\ cur' = next.cur
  /\ UNCHANGED <<inputs, outside, planning, edited_ref, evaluation, result>>

\* 476-481: a project bullet rewritten for the role
RoleProj ==
  /\ pc = "role_proj"
  /\ LET p == Edited
         bullet == ProjBulletAt(p, cur)
         kws == RoleKeywords(job_role)
     IN \E resp \in Backend(CallResponses(Truthy(job_role) \/ kws # <<>>, bullet)) :
          LET nb == RewriteBulletForRole(bullet, job_role, kws, resp)
              q == IF Truthy(nb) THEN SetProjBulletAt(p, cur, nb) ELSE p
              next == After("role", "role_proj", cur, q)
          IN /\ heap' = [heap EXCEPT ![edited_ref] = q]
             /\ relevant_keywords' = kws
             /\ new_bullet' = nb
             /\ gen' = Logged(NoGen, "role", resp)
             /\ pc' = next.pc
             /\ cur' = next.cur
  /\ UNCHANGED <<inputs, outside, planning, edited_ref, evaluation, result>>

\* _improve_bullets_generally 918-923: no Requirement, company or role
GeneralExp ==
  /\ pc = "gen_exp"
  /\ LET p == Edited
         bullet == ExpBulletAt(p, cur)
     IN \E resp \in Backend(Responses(bullet)) :
          LET nb == ImproveBulletGenerally(bullet, resp)
              q == IF Truthy(nb) THEN SetExpBulletAt(p, cur, nb) ELSE p
              next == After("general", "gen_exp", cur, q)
          IN /\ heap' = [heap EXCEPT ![edited_ref] = q]
             /\ new_bullet' = nb
             /\ gen' = Logged(NoGen, "general", resp)
             /\ pc' = next.pc
             /\ cur' = next.cur
  /\ relevant_keywords' = <<>>
  /\ UNCHANGED <<inputs, outside, planning, edited_ref, evaluation, result>>

\* _apply_edits 393-415: a project description (unit 0) or a project bullet
ProjectStep ==
  /\ pc = "p3"
  /\ LET p == Edited
         pos == ProjectUnits(p.projects)[cur]
         proj == p.projects[pos[1]]
         isDesc == pos[2] = 0
         text == IF isDesc THEN proj.description ELSE proj.bullets[pos[2]]
         kws == IF jd # NoJD THEN GetPrioritySkills(jd, FallbackLimit) ELSE <<>>
         called == IF isDesc THEN jd # NoJD ELSE (jd = NoJD \/ kws # <<>>)
     IN \E resp \in Backend(CallResponses(called, text)) :
          LET new_text ==
                IF ~called THEN NoText
                ELSE IF isDesc THEN RewriteProjectDescription(text, resp)
                ELSE IF jd # NoJD THEN RewriteBulletAsync(text, kws, resp)
                ELSE ImproveBulletGenerally(text, resp)
              q == IF ~Truthy(new_text) THEN p
                   ELSE IF isDesc THEN [p EXCEPT !.projects[pos[1]].description = new_text]
                   ELSE SetProjBullet(p, pos[1], pos[2], new_text)
              next == After(TheBranch, "p3", cur, q)
          IN /\ heap' = [heap EXCEPT ![edited_ref] = q]
             /\ new_bullet' = new_text
             /\ gen' = Logged(NoGen,
                              IF isDesc THEN "description"
                              ELSE IF jd # NoJD THEN "keyword" ELSE "general", resp)
             /\ pc' = next.pc
             /\ cur' = next.cur
  /\ relevant_keywords' = <<>>
  /\ UNCHANGED <<inputs, outside, planning, edited_ref, evaluation, result>>

\* _apply_edits 417-421 with _update_skills_section 769-781
SkillsStep ==
  /\ pc = "skills4"
  /\ LET q == AddMissingSkills(Edited, jd)
         next == After("jd", "skills4", cur, q)
     IN /\ heap' = [heap EXCEPT ![edited_ref] = q]
        /\ pc' = next.pc
        /\ cur' = next.cur
  /\ new_bullet' = NoText
  /\ gen' = NoGen
  /\ UNCHANGED <<inputs, outside, planning, edited_ref, relevant_keywords, evaluation,
                 result>>

\* _apply_edits 424-429 with _update_other_section 783-795: one item
OtherStep ==
  /\ pc = "other"
  /\ LET p == Edited
         pos == OtherItems(p.other_sections)[cur]
         desc == p.other_sections[pos[1]].items[pos[2]].description
         kws == GetPrioritySkills(jd, FallbackLimit)
         called == Truthy(desc) /\ kws # <<>>
     IN \E resp \in Backend(CallResponses(called, desc)) :
          LET new_desc == IF called THEN RewriteBulletAsync(desc, kws, resp)
                          ELSE NoText
              q == IF Truthy(new_desc)
                     THEN [p EXCEPT !.other_sections[pos[1]].items[pos[2]].description
                                       = new_desc]
                     ELSE p
              next == After("jd", "other", cur, q)
          IN /\ heap' = [heap EXCEPT ![edited_ref] = q]
             /\ new_bullet' = new_desc
             /\ gen' = Logged(NoGen, "keyword", resp)
             /\ pc' = next.pc
             /\ cur' = next.cur
  /\ UNCHANGED <<inputs, outside, planning, edited_ref, relevant_keywords, evaluation,
                 result>>

\* _apply_edits 434-447: some top-level count decreased (logged only)
StructureShrunk(original, edited) ==
  \/ Len(edited.experiences) < Len(original.experiences)
  \/ Len(edited.projects) < Len(original.projects)
  \/ Len(edited.education) < Len(original.education)
  \/ Len(edited.certifications) < Len(original.certifications)
  \/ Len(edited.awards) < Len(original.awards)
  \/ Len(edited.other_sections) < Len(original.other_sections)

\* _apply_edits 431-449, process 77-95, execute 91-121, customize_resume 1188-1192
Finish ==
  /\ pc = "finish"
  /\ evaluation' =
       [report |-> EvaluateEditCompleteness(Original, Edited, sections_to_edit),
        shrink_warning |-> StructureShrunk(Original, Edited)]
  /\ result' = Success(edited_ref)
  /\ pc' = "done"
  /\ cur' = 0
  /\ relevant_keywords' = <<>>
  /\ new_bullet' = NoText
  /\ gen' = NoGen
  /\ UNCHANGED <<heap, inputs, outside, planning, edited_ref>>

Next ==
  \/ Start
  \/ Plan
  \/ BeginApply
  \/ PhaseA
  \/ Summary
  \/ JdExpFirst
  \/ JdExpSecond
  \/ JdExpFinal
  \/ JdExpExtra
  \/ JdProjFirst
  \/ JdProjFinal
  \/ JdTail
  \/ RoleExp
  \/ RoleProj
  \/ GeneralExp
  \/ ProjectStep
  \/ SkillsStep
  \/ OtherStep
  \/ Finish

Spec == Init /\ [][Next]_vars

\* ------------------------------------------------------------- properties
ValidInputs == caller_profile # NoProfile /\ jd # MalformedJD
Copied == edited_ref # 0
Succeeded == pc = "done" /\ result.success

PhaseBStages ==
  {"summary", "jd_exp_A", "jd_exp_B", "jd_exp_C", "jd_extra", "jd_proj_A",
   "jd_proj_C", "jd_tail", "role_exp", "role_proj", "gen_exp", "p3", "skills4",
   "other", "finish"}
FailedPlanner == {"raise", "garbage", "invalid"}

IsPrefix(a, b) == Len(a) <= Len(b) /\ SubSeq(b, 1, Len(a)) = a

BulletCountsKept(orig_entries, new_entries) ==
  \A n \in 1..Len(orig_entries) :
     /\ n <= Len(new_entries)
     /\ Len(new_entries[n].bullets) >= Len(orig_entries[n].bullets)

StructureKept(original, edited) ==
  /\ Len(edited.experiences) >= Len(original.experiences)
  /\ Len(edited.projects) >= Len(original.projects)
  /\ Len(edited.education) >= Len(original.education)
  /\ Len(edited.certifications) >= Len(original.certifications)
  /\ Len(edited.awards) >= Len(original.awards)
  /\ Len(edited.other_sections) >= Len(original.other_sections)
  /\ BulletCountsKept(original.experiences, edited.experiences)
  /\ BulletCountsKept(original.projects, edited.projects)

\* C1: at every point of the edit applier, and in the Profile it returns, no
\* top-level list (experiences, projects, education, certifications, awards,
\* other sections) is shorter than in the original and no experience or
\* project has fewer bullets; the shrink warning is never logged.
C1_MonotonicStructure ==
  Copied =>
    /\ StructureKept(Original, Edited)
    /\ (pc = "done" => ~evaluation.shrink_warning)

\* a returned Profile whose first experience gained a bullet and had its
\* first bullet replaced
C1_Witness ==
  /\ Succeeded
  /\ Original.experiences # <<>>
  /\ Len(Edited.experiences[1].bullets) > Len(Original.experiences[1].bullets)
  /\ Original.experiences[1].bullets # <<>>
  /\ Edited.experiences[1].bullets[1] # Original.experiences[1].bullets[1]

\* C2: the caller's Profile object holds the value it was passed with, in
\* every state of a customization, including after a success or a failure.
C2_OriginalNeverMutated == heap[OrigRef] = caller_profile

\* a customization that returned an edited Profile different from the input
C2_Witness ==
  /\ Succeeded
  /\ Edited # caller_profile
  /\ edit_plan.n_actions > 0
  /\ heap[OrigRef] = caller_profile

\* one step of a customization, as far as the order of the phases goes
PhaseOrderStep ==
  \* the forced pass is entered only with every action of the plan processed
  /\ pc' \in PhaseBStages => pending' = <<>>
  \* whatever the planner did and whether or not the warning was logged, the
  \* applier goes on to its loop or, with no action, to the forced pass
  /\ pc = "copy" => pc' = (IF pending = <<>> THEN "summary" ELSE "phaseA")
  /\ pc = "phaseA" => pending # <<>> /\ pending' = Tail(pending)
                      /\ pc' = (IF pending' = <<>> THEN "summary" ELSE "phaseA")
  \* the forced pass works on the object the loop wrote to, and its first
  \* step leaves everything but the summary as the loop left it
  /\ pc \in PhaseBStages \cup {"phaseA"} =>
        edited_ref' = edited_ref /\ heap'[OrigRef] = heap[OrigRef]
  /\ pc = "summary" =>
        [heap'[edited_ref] EXCEPT !.summary = heap[edited_ref].summary]
          = heap[edited_ref]
  /\ pc \in PhaseBStages => pc' \in PhaseBStages \cup {"done"}
  \* a success is returned by the end of the forced pass only
  /\ (pc' = "done" /\ result'.success) => pc = "finish"

\* C3: the forced pass runs in every customization that reaches the applier,
\* only after the loop over the plan's actions has processed every action, on
\* the working copy that loop mutated; an empty or failed plan and the
\* too-small-plan warning do not stop it.
C3_PhaseBAfterPhaseA ==
  /\ [](pc = "copy" => ENABLED BeginApply)
  /\ [][PhaseOrderStep]_vars

\* a returned Profile that keeps the text the plan put into a bullet and has
\* a summary rewritten by the forced pass, the warning having been logged
C3_Witness ==
  /\ Succeeded
  /\ planner = "ok"
  /\ edit_plan.n_actions > 0
  /\ plan_warning
  /\ Edited.experiences # <<>>
  /\ Edited.experiences[1].bullets # <<>>
  /\ Edited.experiences[1].bullets[1] = TxPlan
  /\ Edited.summary # Original.summary


\* the parts of a Profile that only a generation call or a plan action writes
WrittenText(profile) ==
  [summary |-> profile.summary,
   experiences |-> [n \in 1..Len(profile.experiences) |->
                      profile.experiences[n].bullets],
   projects |-> [n \in 1..Len(profile.projects) |->
                   <<profile.projects[n].description, profile.projects[n].bullets>>],
   education |-> profile.education,
   certifications |-> profile.certifications,
   awards |-> profile.awards,
   other_sections |-> profile.other_sections]

\* skills and technologies have only been appended to
OnlyAppended(original, edited) ==
  /\ IsPrefix(original.skills, edited.skills)
  /\ \A n \in 1..Len(original.experiences) :
        IsPrefix(original.experiences[n].technologies,
                 edited.experiences[n].technologies)
  /\ \A n \in 1..Len(original.projects) :
        IsPrefix(original.projects[n].technologies,
                 edited.projects[n].technologies)

SameCounts(original, edited) ==
  /\ Len(edited.experiences) = Len(original.experiences)
  /\ Len(edited.projects) = Len(original.projects)
  /\ Len(edited.education) = Len(original.education)
  /\ Len(edited.certifications) = Len(original.certifications)
  /\ Len(edited.awards) = Len(original.awards)
  /\ Len(edited.other_sections) = Len(original.other_sections)
  /\ Len(edited.skills) = Len(original.skills)

BackendDownRun == backend = "down" /\ pc = "done" /\ ValidInputs

C5_ResultOrFailure ==
  /\ (pc = "done") <=> (result # NoneRec)
  /\ pc = "done" =>
       \/ /\ result.success
          /\ result.edited_profile = edited_ref
          /\ Copied
          /\ Edited # NoProfile
          /\ result.error = None
          /\ evaluation # NoneRec
          /\ ValidInputs
       \/ /\ ~result.success
          /\ result.edited_profile = 0
          /\ result.error # None
          /\ ~ValidInputs
  /\ ~ValidInputs =>
       /\ ~Copied
       /\ \A r \in Refs \ {OrigRef} : heap[r] = NoProfile
       /\ gen = NoGen
       /\ pc \in {"start", "plan", "done"}

\* a malformed Requirement with a well-formed Profile, refused
C5_Witness ==
  /\ pc = "done"
  /\ ~result.success
  /\ jd = MalformedJD
  /\ caller_profile # NoProfile
  /\ sections_to_edit # <<>>


\* the stages whose step settles one unit, and that unit's text in `profile`
UnitStages ==
  {"summary", "jd_exp_C", "jd_proj_C", "role_exp", "role_proj", "gen_exp",
   "p3", "other"}

UnitText(profile, stage, c) ==
  CASE stage = "summary" -> profile.summary
    [] stage \in {"jd_exp_C", "role_exp", "gen_exp"} -> ExpBulletAt(profile, c)
    [] stage \in {"jd_proj_C", "role_proj"} -> ProjBulletAt(profile, c)
    [] stage = "p3" ->
         LET pos == ProjectUnits(profile.projects)[c]
         IN IF pos[2] = 0 THEN profile.projects[pos[1]].description
            ELSE profile.projects[pos[1]].bullets[pos[2]]
    [] stage = "other" ->
         LET pos == OtherItems(profile.other_sections)[c]
         IN profile.other_sections[pos[1]].items[pos[2]].description

WithUnitText(profile, stage, c, text) ==
  CASE stage = "summary" -> [profile EXCEPT !.summary = text]
    [] stage \in {"jd_exp_C", "role_exp", "gen_exp"} ->
         SetExpBulletAt(profile, c, text)
    [] stage \in {"jd_proj_C", "role_proj"} -> SetProjBulletAt(profile, c, text)
    [] stage = "p3" ->
         LET pos == ProjectUnits(profile.projects)[c]
         IN IF pos[2] = 0
              THEN [profile EXCEPT !.projects[pos[1]].description = text]
              ELSE SetProjBullet(profile, pos[1], pos[2], text)
    [] stage = "other" ->
         LET pos == OtherItems(profile.other_sections)[c]
         IN [profile EXCEPT
               !.other_sections[pos[1]].items[pos[2]].description = text]

\* text that is not empty or blank and differs from `old`, letter case and
\* surrounding blanks aside
DifferentText(text, old) ==
  Truthy(text) /\ Strip(text) # <<>> /\ Lower(Strip(text)) # Lower(Strip(old))

\* one step of the forced pass, as far as a failing generation call goes
IsolationStep ==
  /\ pc \in UnitStages =>
       LET before == heap[edited_ref]
           after == heap'[edited_ref]
           old == UnitText(before, pc, cur)
           new == UnitText(after, pc, cur)
       IN \* every call made for the unit raised: the unit keeps its value
          /\ gen'.raised => new = old
          \* a call returned different text: the unit holds that text
          /\ (gen'.calls # <<>> /\ ~gen'.raised /\ DifferentText(new_bullet', old))
               => new = new_bullet'
          \* no other unit is touched by this unit's step
          /\ WithUnitText(after, pc, cur, old) = before
          \* the pass goes on
          /\ pc' \in PhaseBStages
          /\ result' = NoneRec
  \* the call for an additional bullet raised: no bullet is added
  /\ (pc = "jd_extra" /\ gen'.raised) =>
       /\ heap'[edited_ref].experiences[cur].bullets
            = heap[edited_ref].experiences[cur].bullets
       /\ pc' \in PhaseBStages

\* C6: in the forced pass, when every generation call made for a unit raises,
\* that unit and only that unit keeps its value and the pass goes on to the
\* next unit; a unit for which a call returns different text (not blank, and
\* different apart from letter case) holds the returned text afterwards.
C6_PerUnitIsolation == [][IsolationStep]_vars

\* the second bullet's calls all raised and it is as it was, while the first
\* bullet was rewritten in the same pass
C6_Witness ==
  /\ pc \in PhaseBStages
  /\ gen.raised
  /\ Copied
  /\ Original.experiences # <<>>
  /\ Len(Original.experiences[1].bullets) >= 2
  /\ Edited.experiences[1].bullets[2] = Original.experiences[1].bullets[2]
  /\ Edited.experiences[1].bullets[1] = TxNew
  /\ cur = 1
  /\ pc \in {"jd_extra", "p3", "finish"}
  /\ edit_plan.n_actions = 0

\* C7: when the planner call raises, its content is no JSON or the JSON is
\* rejected while the plan is built, the plan has no action, no keyword and an
\* estimate of 0; the customization does not fail: the applier starts, and
\* the customization ends in success.
C7_PlannerFailureRecoverable ==
  planner \in FailedPlanner =>
    /\ edit_plan = [n_actions |-> 0, keywords_to_add |-> <<>>,
                    estimated_ats_score_improvement |-> 0]
    /\ pending = <<>>
    /\ pc \notin {"start", "plan", "phaseA"}
    /\ (pc = "copy" => ENABLED BeginApply)
    /\ (pc = "done" => result.success)
    /\ (pc # "done" => result = NoneRec)

\* a plan whose JSON was rejected, and a Profile edited all the same
C7_Witness ==
  /\ Succeeded
  /\ planner = "invalid"
  /\ edit_plan.n_actions = 0
  /\ Edited # Original


Count(entries, Test(_)) == Cardinality({n \in 1..Len(entries) : Test(entries[n])})
BulletTotal(entries) ==
  SumSeq([n \in 1..Len(entries) |-> Len(entries[n].bullets)])
One(cond) == IF cond THEN 1 ELSE 0

HasBullets(entry) == entry.bullets # <<>>
HasTechnologies(entry) == entry.technologies # <<>>
HasDescription(entry) == Truthy(entry.description)
HasBulletsOrDescription(entry) == HasBullets(entry) \/ HasDescription(entry)
HasItems(section) == section.items # <<>>

\* the count C8 states: one per bullet, per project description, for the
\* summary, for the skills, per experience with bullets (its technologies)
\* and per other section with an item
StatedIdentifierCount(profile) ==
  BulletTotal(profile.experiences) + BulletTotal(profile.projects)
  + Count(profile.projects, HasDescription)
  + One(Truthy(profile.summary)) + One(profile.skills # <<>>)
  + Count(profile.experiences, HasBullets)
  + Count(profile.other_sections, HasItems)

\* the count the identifier has: the stated per-bullet, summary, skills and
\* other-section identifiers; also one for the experiences and one for the
\* projects as a whole, one per experience with bullets for its bullet list,
\* one per project with bullets or a description, one each for
\* certifications and awards; the technologies identifier goes with non-empty
\* technologies, not with bullets
CodeIdentifierCount(profile) ==
  BulletTotal(profile.experiences) + BulletTotal(profile.projects)
  + One(Truthy(profile.summary)) + One(profile.skills # <<>>)
  + Count(profile.other_sections, HasItems)
  + One(profile.experiences # <<>>) + One(profile.projects # <<>>)
  + Count(profile.experiences, HasBullets)
  + Count(profile.experiences, HasTechnologies)
  + Count(profile.projects, HasBulletsOrDescription)
  + One(profile.certifications # <<>>) + One(profile.awards # <<>>)

Identified == pc # "start" /\ caller_profile # NoProfile

\* C8 (as the code has it): the identifier returns one identifier per bullet
\* of every experience and project, one for a non-empty summary, one for
\* non-empty skills, one per other section with an item, and besides these
\* the aggregate identifiers "experiences", "experience_i_bullets",
\* "projects", "project_i", "certifications" and "awards" and one
\* "experience_i_technologies" per experience with technologies; there is no
\* project-description identifier; the number of identifiers is that count.
C8_IdentifierCoverage ==
  Identified =>
    LET profile == Original
        ids == Range(sections_to_edit)
    IN /\ Len(sections_to_edit) = CodeIdentifierCount(profile)
       /\ \A i \in 1..Len(profile.experiences) :
            /\ \A j \in 1..Len(profile.experiences[i].bullets) :
                 Id4("experience", IntStr(i - 1), "bullet", IntStr(j - 1)) \in ids
            /\ HasBullets(profile.experiences[i])
                 <=> Id3("experience", IntStr(i - 1), "bullets") \in ids
            /\ HasTechnologies(profile.experiences[i])
                 <=> Id3("experience", IntStr(i - 1), "technologies") \in ids
       /\ \A i \in 1..Len(profile.projects) :
            /\ \A j \in 1..Len(profile.projects[i].bullets) :
                 Id4("project", IntStr(i - 1), "bullet", IntStr(j - 1)) \in ids
            /\ HasBulletsOrDescription(profile.projects[i])
                 <=> Id2("project", IntStr(i - 1)) \in ids
            /\ Id3("project", IntStr(i - 1), "description") \notin ids
       /\ Truthy(profile.summary) <=> Id1("summary") \in ids
       /\ profile.skills # <<>> <=> Id1("skills") \in ids
       /\ profile.experiences # <<>> <=> Id1("experiences") \in ids
       /\ profile.projects # <<>> <=> Id1("projects") \in ids
       /\ profile.certifications # <<>> <=> Id1("certifications") \in ids
       /\ profile.awards # <<>> <=> Id1("awards") \in ids

\* a Profile whose identifiers outnumber the stated count: an experience
\* with bullets and technologies
C8_Witness ==
  /\ Identified
  /\ Id1("experiences") \in Range(sections_to_edit)
  /\ Id3("experience", "0", "bullets") \in Range(sections_to_edit)
  /\ Id3("experience", "0", "technologies") \in Range(sections_to_edit)
  /\ Len(sections_to_edit) > StatedIdentifierCount(Original)

\* C8 as stated: the number of identifiers equals the stated count
C8_AsStated ==
  Identified => Len(sections_to_edit) = StatedIdentifierCount(Original)

\* the identifying step
IdentifyStep ==
  pc = "start" =>
    /\ heap' = heap
    /\ UNCHANGED <<inputs, outside, edit_plan, planner, plan_warning, pending,
                   edited_ref, cur, locals, evaluation>>
    /\ Original # NoProfile =>
         /\ sections_to_edit'
              = IdentifySectionsToEdit(Original, NoJD, NoText, NoText)
         /\ result' = result

\* C9: for a fixed Profile the identifier returns, for every Requirement,
\* company and role, the sequence it returns with none of them, and the step
\* that runs it changes neither the Profile nor anything else but its result.
C9_IdentifierIndependentPure == [][IdentifyStep]_vars

\* identifiers computed with a Requirement, a company and a role given
C9_Witness ==
  /\ pc = "plan"
  /\ jd = FullJD
  /\ Truthy(company_name)
  /\ Truthy(job_role)
  /\ Len(sections_to_edit) > 2
  /\ heap[OrigRef] = caller_profile


\* some keyword of the Requirement occurs in the bullet as it is written
DirectOverlap(bullet, jd_) ==
  \E k \in Range(GetAllKeywords(jd_)) : Contains(Lower(bullet), Lower(k))

HasPrioritySkills(jd_) ==
  jd_.required_skills # <<>> \/ jd_.preferred_skills # <<>>

\* the keywords selected for the experience bullet the pass is at
KeywordsSelected == pc = "jd_exp_B"
NoOverlapBullet ==
  KeywordsSelected /\ ~DirectOverlap(ExpBulletAt(Edited, cur), jd)

RequirementRun == Succeeded /\ IsWellFormedJD(jd)
AddedSkills == SubSeq(Edited.skills, Len(Original.skills) + 1, Len(Edited.skills))
AbsentSkills == MissingSkills(jd, Original.skills)

\* C11: in one customization with a Requirement the skills list grows by at
\* most 10 entries, every added entry is a required or preferred skill of the
\* Requirement whose name was not in the original list (case-insensitive),
\* and with at most 10 absent skills the growth equals their number.
C11_SkillsCap ==
  RequirementRun =>
    /\ IsPrefix(Original.skills, Edited.skills)
    /\ Len(AddedSkills) <= SkillCap
    /\ \A n \in 1..Len(AddedSkills) : AddedSkills[n] \in Range(AbsentSkills)
    /\ (Len(AbsentSkills) <= SkillCap => Len(AddedSkills) = Len(AbsentSkills))

\* what the two passes do together: the forced pass appends the first 10
\* absent skills and the skills step appends up to 10 of those still absent
C11_TwoPasses ==
  RequirementRun =>
    /\ IsPrefix(Original.skills, Edited.skills)
    /\ AddedSkills = Take(AbsentSkills, SkillCap + SkillCap)

\* a customization that returned 11 added skills
C11_Witness ==
  /\ RequirementRun
  /\ Len(AbsentSkills) = SkillCap + 1
  /\ Len(AddedSkills) = SkillCap + 1

\* ----------------------------------------------------------- technology cap
Technologies(entries) == [n \in 1..Len(entries) |-> entries[n].technologies]
Appended(old, new) == SubSeq(new, Len(old) + 1, Len(new))

\* `new` is `old` followed by at most `cap` technical keywords of the
\* Requirement that `old` lacked (ignoring letter case), in keyword order
CappedAppend(old, new, cap) ==
  LET added == Appended(old, new)
      absent(t) == \A k \in 1..Len(old) : Lower(old[k]) # Lower(t)
      missing == SelectSeq(jd.technical_keywords, absent)
  IN /\ IsPrefix(old, new)
     /\ Len(added) <= cap
     /\ \A n \in 1..Len(added) : added[n] \in Range(jd.technical_keywords) /\ absent(added[n])
     /\ IsPrefix(added, missing)
     /\ Len(added) = Min(cap, Len(missing))

TechCapStep ==
  LET before == heap[edited_ref]
      after == heap'[edited_ref]
  IN /\ pc = "jd_extra" =>
          /\ CappedAppend(before.experiences[cur].technologies,
                          after.experiences[cur].technologies, ExpTechCap)
          /\ \A e \in 1..Len(before.experiences) :
                e # cur => after.experiences[e].technologies
                             = before.experiences[e].technologies
          /\ Technologies(after.projects) = Technologies(before.projects)
          /\ pc' = "jd_extra" => cur' > cur
     /\ pc = "jd_tail" =>
          /\ Len(after.projects) = Len(before.projects)
          /\ \A e \in 1..Len(before.projects) :
                CappedAppend(before.projects[e].technologies,
                             after.projects[e].technologies, ProjTechCap)
          /\ Technologies(after.experiences) = Technologies(before.experiences)
          /\ pc' # "jd_tail"
     /\ (pc \in PhaseBStages \ {"jd_extra", "jd_tail"} /\ pc' \in PhaseBStages) =>
          /\ Technologies(after.experiences) = Technologies(before.experiences)
          /\ Technologies(after.projects) = Technologies(before.projects)

\* C12: with a Requirement the forced pass appends to each experience at most
\* 5 and to each project at most 3 technologies, each a technical keyword of
\* the Requirement the entry's list lacked (case-insensitive), in the
\* Requirement's keyword order; each entry is visited once and no other step
\* of the forced pass writes a technology list.
C12_TechnologyCap == [][TechCapStep]_vars

\* an experience that lacked 6 technical keywords and was given the first 5
C12_Witness ==
  /\ pc \in {"jd_extra", "jd_proj_A", "jd_tail"}
  /\ Original.experiences # <<>>
  /\ Len(MissingTechs(jd, Original.experiences[1].technologies)) = ExpTechCap + 1
  /\ Edited.experiences[1].technologies
       = Original.experiences[1].technologies \o Take(jd.technical_keywords, ExpTechCap)

\* ------------------------------------------------------------- summary rule
SummaryRuleStep ==
  (edited_ref # 0 /\ edited_ref' = edited_ref) =>
    LET before == heap[edited_ref].summary
        after == heap'[edited_ref].summary
    IN /\ TheBranch = "general" => after = before
       /\ (IsWellFormedJD(jd) /\ after # before) =>
            /\ pc = "summary"
            /\ gen'.calls = <<"summary">> /\ ~gen'.raised
            /\ after = new_bullet'
            /\ Truthy(after) /\ Strip(after) # <<>>
            /\ Strip(after) # Strip(before)

\* C13: with no Requirement, company or role the summary of the working copy
\* always equals the original's, for every plan and generation outcome; with
\* a Requirement the summary is replaced only in the summary step, and only by
\* the text the summary call returned, when that text is non-empty and
\* differs from the current summary after trimming whitespace.
C13_SummaryRule ==
  /\ []((Copied /\ TheBranch = "general") => Edited.summary = Original.summary)
  /\ [][SummaryRuleStep]_vars

\* a customization with a Requirement that returned a replaced summary
C13_Witness ==
  /\ Succeeded
  /\ IsWellFormedJD(jd)
  /\ Truthy(Original.summary)
  /\ Strip(Edited.summary) # Strip(Original.summary)

\* ------------------------------------------------- company/role without jd
RoleRun == Copied /\ TheBranch = "role"

\* what neither a plan action nor the role pass may write
RoleFrame(profile) ==
  [skills |-> profile.skills,
   education |-> profile.education,
   certifications |-> profile.certifications,
   awards |-> profile.awards,
   other_sections |-> profile.other_sections,
   projects |-> [n \in 1..Len(profile.projects) |->
                   [description |-> profile.projects[n].description,
                    technologies |-> profile.projects[n].technologies,
                    bullets |-> Len(profile.projects[n].bullets)]],
   experiences |-> [n \in 1..Len(profile.experiences) |->
                      [technologies |-> IF n = 1 THEN <<>>
                                        ELSE profile.experiences[n].technologies,
                       bullets |-> Len(profile.experiences[n].bullets)]]]

PlanKeywords == {ActionText(a) : a \in {x \in ActionPool : x.action_type = "add_keyword"}}

\* the first experience's technologies: the original's, then one keyword per
\* add_keyword action the plan loop has applied
FirstTechnologies ==
  Original.experiences # <<>> =>
    LET old == Original.experiences[1].technologies
        new == Edited.experiences[1].technologies
    IN /\ IsPrefix(old, new)
       /\ Len(new) - Len(old) <= edit_plan.n_actions - Len(pending)
       /\ \A n \in 1..Len(Appended(old, new)) : Appended(old, new)[n] \in PlanKeywords

IsRoleKeywords(kws) ==
  LET words == IF Truthy(job_role) THEN Split(Lower(job_role)) ELSE <<>>
  IN /\ \A n \in 1..Len(kws) : Len(kws[n]) > RoleWordMin /\ kws[n] \in Range(words)
     /\ \A n \in 1..Len(words) : Len(words[n]) > RoleWordMin => words[n] \in Range(kws)

RoleStep ==
  (RoleRun /\ pc \in PhaseBStages /\ pc' \in PhaseBStages) =>
    /\ Technologies(heap'[edited_ref].experiences)
         = Technologies(heap[edited_ref].experiences)
    /\ (pc \in {"role_exp", "role_proj"} => IsRoleKeywords(relevant_keywords'))
    /\ (pc \in {"role_exp", "role_proj"} /\ gen'.calls # <<>>) => Truthy(job_role)

\* C14 (as the code has it): with a company or role and no Requirement, the
\* skills list, every project's technologies and description, and every list
\* but summary and bullets equal the original's; the forced pass writes no
\* technology list; the first experience's technologies are the original's
\* followed by the keyword of each add_keyword action of the plan; bullets
\* are rewritten with the words of the lower-cased role longer than 4
\* characters as role keywords.
C14_RoleOnlyFrame ==
  /\ [](RoleRun => (RoleFrame(Edited) = RoleFrame(Original) /\ FirstTechnologies))
  /\ [][RoleStep]_vars

\* a returned Profile, company and role only, whose first experience has a
\* technology from the plan and a rewritten bullet
C14_Witness ==
  /\ Succeeded
  /\ TheBranch = "role"
  /\ Truthy(job_role)
  /\ Original.experiences # <<>>
  /\ Len(Edited.experiences[1].technologies) > Len(Original.experiences[1].technologies)
  /\ Original.experiences[1].bullets # <<>>
  /\ Edited.experiences[1].bullets[1] # Original.experiences[1].bullets[1]

\* C14 as stated: every technology list and the skills list equal the
\* original's, for every plan
C14_AsStated ==
  RoleRun =>
    /\ Technologies(Edited.experiences) = Technologies(Original.experiences)
    /\ Technologies(Edited.projects) = Technologies(Original.projects)
    /\ Edited.skills = Original.skills

\* ------------------------------------------------------- completeness score
\* unit lists the section identifier never returns: a repeated unit, an
\* index that is no number, negative or past the end, an unknown name
OddSections ==
  << Id1("summary"), Id1("summary"), T("experience", "x", "bullet", "0"),
     Id2("experience", "-1"), Id2("experience", "9"), Id1("nothing") >>
UnitLists == {<<>>, sections_to_edit, OddSections, sections_to_edit \o OddSections}

ScoreWellFormed(original, edited, sections) ==
  LET ev == EvaluateEditCompleteness(original, edited, sections)
      score == CompletenessScore(ev)
  IN /\ EvaluateRaises(original, edited, sections) = ""
     /\ ev.sections_identified = Len(sections)
     /\ ev.sections_edited + Len(ev.missing_edits) = ev.sections_identified
     /\ score[2] > 0 /\ 0 <= score[1] /\ score[1] <= score[2]
     /\ score[1] * ev.sections_identified = ev.sections_edited * score[2]
     /\ (sections = <<>> => score[1] = 0)

EvaluateStep ==
  pc = "finish" =>
    /\ heap' = heap
    /\ pc' = "done" /\ result'.success
    /\ evaluation'.report = EvaluateEditCompleteness(Original, Edited, sections_to_edit)

\* C15: for the original and edited Profile of every run and every unit
\* list, the evaluator returns edited_count + |missing| = identified_count
\* and completeness_score = edited_count / identified_count, between 0 and 1,
\* 0 when no unit was identified; it raises nothing and writes to neither
\* Profile.
C15_CompletenessBounds ==
  /\ [](Copied => \A sections \in UnitLists : ScoreWellFormed(Original, Edited, sections))
  /\ [][EvaluateStep]_vars

\* a report with some units edited and some missing, score strictly between
\* 0 and 1
C15_Witness ==
  /\ Succeeded
  /\ evaluation.report.sections_edited > 0
  /\ evaluation.report.missing_edits # <<>>
  /\ CompletenessScore(evaluation.report)[1] < CompletenessScore(evaluation.report)[2]

\* ------------------------------------------------------ per-unit comparison
ExperienceAt(profile, digit) == profile.experiences[ParseInt(digit) + 1]
ProjectAt(profile, digit) == profile.projects[ParseInt(digit) + 1]
SectionNamed(profile, name) ==
  LET named(sec) == sec.name = name IN SelectSeq(profile.other_sections, named)

\* the unit's own content differs between the two Profiles, by direct value
\* comparison, for the identifiers the section identifier returns
UnitDiffers(original, edited, section) ==
  LET parts == SplitUnderscore(section)
      bulletAt(entry) == entry.bullets[ParseInt(parts[4]) + 1]
  IN CASE section = Id1("summary") -> original.summary # edited.summary
       [] section = Id1("experiences") -> original.experiences # edited.experiences
       [] section = Id1("projects") -> original.projects # edited.projects
       [] section = Id1("skills") -> original.skills # edited.skills
       [] section = Id1("certifications") -> original.certifications # edited.certifications
       [] section = Id1("awards") -> original.awards # edited.awards
       [] parts[1] = "experience" /\ parts[3] = "bullets" ->
            ExperienceAt(original, parts[2]).bullets # ExperienceAt(edited, parts[2]).bullets
       [] parts[1] = "experience" /\ parts[3] = "technologies" ->
            ExperienceAt(original, parts[2]).technologies
              # ExperienceAt(edited, parts[2]).technologies
       [] parts[1] = "experience" /\ parts[3] = "bullet" ->
            bulletAt(ExperienceAt(original, parts[2])) # bulletAt(ExperienceAt(edited, parts[2]))
       [] parts[1] = "project" /\ Len(parts) = 2 ->
            ProjectAt(original, parts[2]) # ProjectAt(edited, parts[2])
       [] parts[1] = "project" /\ parts[3] = "bullet" ->
            bulletAt(ProjectAt(original, parts[2])) # bulletAt(ProjectAt(edited, parts[2]))
       [] parts[1] = "other" ->
            SectionNamed(original, parts[3]) # SectionNamed(edited, parts[3])

Units == 1..Len(sections_to_edit)
ScoreIsOne(report) == CompletenessScore(report)[1] = CompletenessScore(report)[2]

\* C16: the completeness score is 1.0 only if every identified unit differs
\* from its original value; with some identified unit of the same content in
\* both Profiles the score is below 1.0.
C16_ScoreOneOnlyIfAllDiffer ==
  Succeeded =>
    ((\E n \in Units : ~UnitDiffers(Original, Edited, sections_to_edit[n]))
       => ~ScoreIsOne(evaluation.report))

\* a report with score 1.0 although the second bullet of the first experience
\* was identified and is the same in both Profiles
C16_Witness ==
  /\ Succeeded
  /\ ScoreIsOne(evaluation.report)
  /\ \E n \in Units : sections_to_edit[n] = T("experience", "0", "bullet", "1")
  /\ Edited.experiences[1].bullets[2] = Original.experiences[1].bullets[2]

\* C17: for every identifier the section identifier returns, the evaluator
\* counts the unit as edited if and only if the unit's own content differs
\* between the original and the edited Profile, and lists it as missing
\* otherwise.
C17_PerUnitEvaluation ==
  Succeeded =>
    LET differs(sec) == UnitDiffers(Original, Edited, sec)
        same(sec) == ~UnitDiffers(Original, Edited, sec)
    IN /\ \A n \in Units :
            SectionEdited(Original, Edited, sections_to_edit[n])
              <=> differs(sections_to_edit[n])
       /\ evaluation.report.sections_edited = Len(SelectSeq(sections_to_edit, differs))
       /\ evaluation.report.missing_edits = SelectSeq(sections_to_edit, same)

\* a rewritten project bullet that the report lists as missing
C17_Witness ==
  /\ Succeeded
  /\ Original.projects # <<>>
  /\ Original.projects[1].bullets # <<>>
  /\ Edited.projects[1].bullets[1] # Original.projects[1].bullets[1]
  /\ \E n \in 1..Len(evaluation.report.missing_edits) :
        evaluation.report.missing_edits[n] = T("project", "0", "bullet", "0")

\* ------------------------------------------- concurrent background jobs
\* backend/main.py runs every job's customization in a thread of one pool, on
\* the one rewrite_agent; the jobs' steps interleave in any order
JobIds == 1..MaxJobs
ObjectRefs == 1..(MaxJobs + MaxJobs)
JobAnswers == {GenRaise, GenOk(<<" ">> \o TxNew)}
JobJD(j) == IF j % 2 = 1 THEN FullJD ELSE KeywordOnlyJD

\* the reference of a new object: the first one that holds nothing
FreeRef(store) == CHOOSE r \in ObjectRefs :
                    store[r] = NoProfile /\ \A q \in 1..(r - 1) : store[q] # NoProfile

\* faulty variant: the working profile is the object the caller passed
SharedObjectRef(ref, store) == ref

\* profile.model_copy(deep=True) among concurrent jobs: a new object
DeepCopyRef(ref, store) == FreeRef(store)

\* 688-694: the last call for a bullet and the assignment
JobBulletStep(profile, c, resp) ==
  LET bullet == ExpBulletAt(profile, c)
      nb == ImproveBulletGenerally(bullet, resp)
  IN IF Changed(nb, bullet) THEN SetExpBulletAt(profile, c, nb) ELSE profile

NewJob(j, ref, given) ==
  [pc |-> "copy", profile |-> ref, given |-> given, jd |-> JobJD(j), edited |-> 0,
   cur |-> 0, heard |-> <<>>, result |-> NoneRec]

\* the jobs are given one Profile object, or each its own
ConcInit ==
  /\ \E same \in BOOLEAN :
       /\ objects = [r \in ObjectRefs |->
                       IF r = 1 \/ (~same /\ r \in JobIds) THEN DeepProfile
                       ELSE NoProfile]
       /\ jobs = [j \in JobIds |-> NewJob(j, IF same THEN 1 ELSE j, DeepProfile)]
  /\ caller_profile = NoProfile
  /\ heap = [r \in Refs |-> NoProfile]
  /\ jd = NoJD /\ company_name = NoText /\ job_role = NoText
  /\ backend = "up"
  /\ pc = "jobs"
  /\ sections_to_edit = <<>>
  /\ edit_plan = NoneRec
  /\ planner = ""
  /\ plan_warning = FALSE
  /\ pending = <<>>
  /\ edited_ref = 0
  /\ cur = 0
  /\ relevant_keywords = <<>>
  /\ new_bullet = NoText
  /\ gen = NoGen
  /\ evaluation = NoneRec
  /\ result = NoneRec
  /\ understanding = NoneRec
  /\ Idle

single == <<heap, inputs, planning, edited_ref, cur, locals, evaluation, result, pc, understanding, aside>>

\* _apply_edits 331: the job's working copy
JobCopy(j) ==
  /\ jobs[j].pc = "copy"
  /\ LET ref == DeepCopyRef(jobs[j].profile, objects)
         units == Len(BulletPositions(objects[jobs[j].profile].experiences))
     IN /\ objects' = [objects EXCEPT ![ref] = objects[jobs[j].profile]]
        /\ jobs' = [jobs EXCEPT ![j].edited = ref,
                                ![j].pc = IF units > 0 THEN "bullets" ELSE "skills",
                                ![j].cur = IF units > 0 THEN 1 ELSE 0]
  /\ UNCHANGED single

\* one bullet of the job's working copy, with the answer the job got
JobBullet(j) ==
  /\ jobs[j].pc = "bullets"
  /\ \E resp \in JobAnswers :
       LET q == JobBulletStep(objects[jobs[j].edited], jobs[j].cur, resp)
           last == jobs[j].cur = Len(BulletPositions(q.experiences))
       IN /\ objects' = [objects EXCEPT ![jobs[j].edited] = q]
          /\ jobs' = [jobs EXCEPT ![j].heard = Append(@, resp),
                                  ![j].cur = IF last THEN 0 ELSE @ + 1,
                                  ![j].pc = IF last THEN "skills" ELSE "bullets"]
  /\ UNCHANGED single

\* 754-765, 449 and customize_resume 1188-1192: the job's missing skills, then
\* its result, which holds its working copy
JobFinish(j) ==
  /\ jobs[j].pc = "skills"
  /\ objects' = [objects EXCEPT ![jobs[j].edited] = AddMissingSkills(@, jobs[j].jd)]
  /\ jobs' = [jobs EXCEPT ![j].pc = "done", ![j].result = Success(jobs[j].edited)]
  /\ UNCHANGED single

ConcNext == \E j \in JobIds : JobCopy(j) \/ JobBullet(j) \/ JobFinish(j)

ConcSpec == ConcInit /\ [][ConcNext]_vars

\* what the job's working copy holds when the job runs alone and gets the
\* answers `heard`
RECURSIVE AloneBullets(_, _, _)
AloneBullets(profile, heard, c) ==
  IF c > Len(heard) THEN profile
  ELSE AloneBullets(JobBulletStep(profile, c, heard[c]), heard, c + 1)
Alone(job) ==
  LET q == AloneBullets(job.given, job.heard, 1)
  IN IF job.pc = "done" THEN AddMissingSkills(q, job.jd) ELSE q

\* C18: concurrent customizations never alias a working copy: each job edits
\* an object of its own, different from every input and every other job's
\* copy; the inputs keep their value; at every point a job's working copy,
\* and at the end its result, hold what the job produces when run alone with
\* the same answers, so no write of another job is visible in them.
C18_NoAliasing ==
  \A j \in JobIds :
    LET job == jobs[j]
    IN /\ objects[job.profile] = job.given
       /\ job.edited # 0 =>
            /\ \A k \in JobIds : job.edited # jobs[k].profile
            /\ \A k \in JobIds \ {j} : job.edited # jobs[k].edited
            /\ objects[job.edited] = Alone(job)
       /\ job.pc = "done" =>
            /\ job.result = Success(job.edited)
            /\ objects[job.result.edited_profile] = Alone(job)

\* two jobs given the same Profile object have returned different Profiles
C18_Witness ==
  /\ jobs[1].profile = jobs[2].profile
  /\ jobs[1].pc = "done" /\ jobs[2].pc = "done"
  /\ objects[jobs[1].result.edited_profile].experiences
       # objects[jobs[2].result.edited_profile].experiences
  /\ objects[jobs[1].result.edited_profile].skills
       # objects[jobs[2].result.edited_profile].skills

\* -------------------------------------------- job understanding: the build
\* the longest required and preferred skill lists the analysis returns
MaxSkills == 2
\* importance in tenths: Field(ge=0.0, le=1.0)
MaxImportance == 10
DefaultRequiredImportance == 8
DefaultPreferredImportance == 6
DefaultResponsibilityImportance == 7

\* importances the language model's JSON may hold, in tenths
RawImportances == {-1, 6, 8, 9, 11}
RawResponsibilityImportances == {7, 11}

\* dict.get(key, default)
DictGet(d, key, default) == IF key \in DOMAIN d THEN d[key] ELSE default

\* one entry of structured_data["required_skills"] or ["preferred_skills"]
SkillData(name) ==
  {[skill |-> name]} \cup {[skill |-> name, importance |-> v] : v \in RawImportances}

SkillName(kind, i) == <<kind, LowerLetters[i]>>

SkillDataLists(kind) ==
  UNION {{d \in [1..n -> UNION {SkillData(SkillName(kind, i)) : i \in 1..n}] :
             \A i \in 1..n : d[i].skill = SkillName(kind, i)} : n \in 0..MaxSkills}

ResponsibilityDataLists ==
  {<<>>} \cup {<<[importance |-> v]>> : v \in RawResponsibilityImportances}

StructuredData ==
  [required_skills : SkillDataLists("r"),
   preferred_skills : SkillDataLists("p"),
   responsibilities : ResponsibilityDataLists]

\* faulty variant: no constraint on the field
ImportanceUnchecked(importance) == TRUE

\* the constraint of the importance field, ge=0.0 and le=1.0
ImportanceInRange(importance) == importance >= 0 /\ importance <= MaxImportance

ValidationError == [error |-> "ValidationError"]
Rejected(x) == "error" \in DOMAIN x

\* the constructors: a value outside the constraint raises, nothing is built
SkillRequirement(skill, importance) ==
  IF ImportanceInRange(importance) THEN Req(skill, importance) ELSE ValidationError

Responsibility(importance) ==
  IF ImportanceInRange(importance) THEN [importance |-> importance]
  ELSE ValidationError

\* _build_job_description: the three loops, then the JobDescription; an
\* exception of a constructor leaves the method
BuildJobDescription(structured_data) ==
  LET required_skills ==
        [i \in 1..Len(structured_data.required_skills) |->
           SkillRequirement(structured_data.required_skills[i].skill,
                            DictGet(structured_data.required_skills[i],
                                    "importance", DefaultRequiredImportance))]
      preferred_skills ==
        [i \in 1..Len(structured_data.preferred_skills) |->
           SkillRequirement(structured_data.preferred_skills[i].skill,
                            DictGet(structured_data.preferred_skills[i],
                                    "importance", DefaultPreferredImportance))]
      responsibilities ==
        [i \in 1..Len(structured_data.responsibilities) |->
           Responsibility(DictGet(structured_data.responsibilities[i],
                                  "importance", DefaultResponsibilityImportance))]
  IN IF \/ \E i \in 1..Len(required_skills) : Rejected(required_skills[i])
        \/ \E i \in 1..Len(preferred_skills) : Rejected(preferred_skills[i])
        \/ \E i \in 1..Len(responsibilities) : Rejected(responsibilities[i])
     THEN ValidationError
     ELSE [jd |-> MkJD(required_skills, preferred_skills, <<>>, <<>>),
           responsibilities |-> responsibilities]

TopNs == 0..(MaxSkills + MaxSkills)

UnderstandInit ==
  /\ \E d \in StructuredData :
       understanding = [pc |-> "data", structured_data |-> d, jd |-> NoneRec,
                        responsibilities |-> <<>>, error |-> None,
                        top_n |-> 0, priority |-> <<>>]
  /\ Idle
  /\ objects = <<>>
  /\ jobs = <<>>
  /\ caller_profile = NoProfile
  /\ heap = [r \in Refs |-> NoProfile]
  /\ jd = NoJD /\ company_name = NoText /\ job_role = NoText
  /\ backend = "up"
  /\ pc = "understanding"
  /\ sections_to_edit = <<>>
  /\ edit_plan = NoneRec
  /\ planner = ""
  /\ plan_warning = FALSE
  /\ pending = <<>>
  /\ edited_ref = 0
  /\ cur = 0
  /\ relevant_keywords = <<>>
  /\ new_bullet = NoText
  /\ gen = NoGen
  /\ evaluation = NoneRec
  /\ result = NoneRec

customization == <<heap, inputs, planning, edited_ref, cur, locals, evaluation, result, pc, objects, jobs, aside>>

\* process: jd = self._build_job_description(structured_data, text)
Build ==
  /\ understanding.pc = "data"
  /\ LET built == BuildJobDescription(understanding.structured_data)
     IN understanding' =
          IF Rejected(built)
          THEN [understanding EXCEPT !.pc = "failed", !.error = built.error]
          ELSE [understanding EXCEPT !.pc = "built", !.jd = built.jd,
                                     !.responsibilities = built.responsibilities]
  /\ UNCHANGED customization

\* jd.get_priority_skills(top_n) on the JobDescription built
Priority(n) ==
  /\ understanding.pc = "built"
  /\ understanding' = [understanding EXCEPT
                         !.pc = "ranked", !.top_n = n,
                         !.priority = GetPrioritySkills(understanding.jd, n)]
  /\ UNCHANGED customization

UnderstandNext == Build \/ \E n \in TopNs : Priority(n)

UnderstandSpec == UnderstandInit /\ [][UnderstandNext]_vars

\* --------------------------------------------------------------- C19
\* the weights the documentation gives, in 1/100: importance times 1.5 for a
\* required skill, importance for a preferred one
DecimalWeightedSkills(description) ==
  [i \in 1..Len(description.required_skills) |->
      [skill |-> description.required_skills[i].skill,
       weight |-> description.required_skills[i].importance * RequiredWeight]]
  \o
  [i \in 1..Len(description.preferred_skills) |->
      [skill |-> description.preferred_skills[i].skill,
       weight |-> description.preferred_skills[i].importance * PreferredWeight]]

Ranked == understanding # NoneRec /\ understanding.pc = "ranked"

\* position of a skill name in the priority list, 0 when it is not there
PriorityRank(name) ==
  IF \E k \in 1..Len(understanding.priority) : understanding.priority[k] = name
  THEN CHOOSE k \in 1..Len(understanding.priority) : understanding.priority[k] = name
  ELSE 0

\* C19: get_priority_skills(n) returns the names of the first n entries of
\* all required and preferred skills ordered by weight descending, a required
\* skill weighing 1.5 times its importance and a preferred skill its
\* importance, equal weights keeping insertion order (required before
\* preferred, each in list order); in particular a required skill of
\* importance 0.6 ranks above a preferred skill of importance 0.8.
C19_PriorityOrder ==
  Ranked =>
    /\ understanding.priority =
         SkillNames(Take(SortByWeightDesc(DecimalWeightedSkills(understanding.jd)),
                         understanding.top_n))
    /\ \A i \in 1..Len(understanding.jd.required_skills) :
         \A k \in 1..Len(understanding.jd.preferred_skills) :
           /\ understanding.jd.required_skills[i].importance = 6
           /\ understanding.jd.preferred_skills[k].importance = 8
           /\ PriorityRank(SkillName("p", k)) > 0
           => /\ PriorityRank(SkillName("r", i)) > 0
              /\ PriorityRank(SkillName("r", i)) < PriorityRank(SkillName("p", k))

\* what holds of the code: the order is that of the products as doubles, in
\* which a required skill of importance 0.6 weighs less than 0.9; the case
\* of 0.6 against 0.8 is as documented
C19_DoubleOrder ==
  Ranked =>
    /\ understanding.priority =
         SkillNames(Take(SortByWeightDesc(WeightedSkills(understanding.jd)),
                         understanding.top_n))
    /\ \A i \in 1..Len(understanding.jd.required_skills) :
         \A k \in 1..Len(understanding.jd.preferred_skills) :
           /\ understanding.jd.required_skills[i].importance = 6
           /\ understanding.jd.preferred_skills[k].importance = 8
           /\ PriorityRank(SkillName("p", k)) > 0
           => /\ PriorityRank(SkillName("r", i)) > 0
              /\ PriorityRank(SkillName("r", i)) < PriorityRank(SkillName("p", k))

\* a required skill of importance 0.6 and a preferred skill of importance 0.9
\* are both returned, the preferred one first
C19_Witness ==
  /\ Ranked
  /\ Len(understanding.jd.required_skills) = 1
  /\ Len(understanding.jd.preferred_skills) = 1
  /\ understanding.jd.required_skills[1].importance = 6
  /\ understanding.jd.preferred_skills[1].importance = 9
  /\ understanding.priority = <<SkillName("p", 1), SkillName("r", 1)>>

\* --------------------------------------------------------------- C20
Understood == understanding # NoneRec /\ understanding.pc # "data"

\* the importances the constructors are given, in the order they are called
GivenImportances ==
  LET data == understanding.structured_data
  IN [i \in 1..Len(data.required_skills) |->
        DictGet(data.required_skills[i], "importance", DefaultRequiredImportance)]
     \o
     [i \in 1..Len(data.preferred_skills) |->
        DictGet(data.preferred_skills[i], "importance", DefaultPreferredImportance)]
     \o
     [i \in 1..Len(data.responsibilities) |->
        DictGet(data.responsibilities[i], "importance", DefaultResponsibilityImportance)]

\* the importances the objects built hold, in the same order
StoredImportances ==
  [i \in 1..Len(understanding.jd.required_skills) |->
     understanding.jd.required_skills[i].importance]
  \o
  [i \in 1..Len(understanding.jd.preferred_skills) |->
     understanding.jd.preferred_skills[i].importance]
  \o
  [i \in 1..Len(understanding.responsibilities) |->
     understanding.responsibilities[i].importance]

Clamp(importance) ==
  IF importance < 0 THEN 0
  ELSE IF importance > MaxImportance THEN MaxImportance ELSE importance

AllInRange ==
  \A i \in 1..Len(GivenImportances) :
    GivenImportances[i] >= 0 /\ GivenImportances[i] <= MaxImportance

\* C20 (as the code has it): an importance is validated against [0,1], not
\* clamped: a skill requirement or responsibility given a value in [0,1]
\* stores that value, one given a value below 0 or above 1 raises a
\* ValidationError and nothing is built, so every stored importance lies in
\* [0,1].
C20_ImportanceValidated ==
  Understood =>
    /\ AllInRange =>
         /\ understanding.pc \in {"built", "ranked"}
         /\ StoredImportances = GivenImportances
         /\ \A i \in 1..Len(StoredImportances) :
              StoredImportances[i] >= 0 /\ StoredImportances[i] <= MaxImportance
    /\ ~AllInRange =>
         /\ understanding.pc = "failed"
         /\ understanding.error = "ValidationError"
         /\ understanding.jd = NoneRec
         /\ understanding.responsibilities = <<>>

\* the importance of a responsibility is above 1, those of the skills are in
\* [0,1] and one of them is given: the build has raised
C20_Witness ==
  /\ Understood
  /\ understanding.pc = "failed"
  /\ Len(understanding.structured_data.required_skills) > 0
  /\ Len(understanding.structured_data.responsibilities) = 1
  /\ understanding.structured_data.responsibilities[1].importance > MaxImportance
  /\ \A i \in 1..(Len(GivenImportances) - 1) :
       GivenImportances[i] >= 0 /\ GivenImportances[i] <= MaxImportance
  /\ "importance" \in DOMAIN understanding.structured_data.required_skills[1]

\* C20 as stated: importance scores are always clamped to [0,1]: whatever
\* value is given, the object is built and its importance is the value
\* brought into [0,1], 0 for a value below 0 and 1 for a value above 1.
C20_AsStated ==
  Understood =>
    /\ understanding.jd # NoneRec
    /\ StoredImportances = [i \in 1..Len(GivenImportances) |-> Clamp(GivenImportances[i])]

\* --------------------------------------------------------------- C24
\* the unit of step 3 at hand is a project bullet, not a description
AtProjectBullet == ProjectUnits(Edited.projects)[cur][2] # 0

\* the calls made for one bullet by the end of its iteration: one keyword
\* rewrite, then at most one general improvement
OneRewriteOneRetry(calls) == calls \in {<<"keyword">>, <<"keyword", "general">>}

RetryStep ==
  /\ pc = "jd_exp_C" =>
       /\ OneRewriteOneRetry(gen'.calls)
       /\ (gen'.calls # gen.calls) = Unchanged(new_bullet, ExpBulletAt(Edited, cur))
       /\ Unchanged(new_bullet', ExpBulletAt(Edited, cur)) =>
            ExpBulletAt(heap'[edited_ref], cur) = ExpBulletAt(Edited, cur)
  /\ pc = "jd_proj_C" =>
       /\ OneRewriteOneRetry(gen'.calls)
       /\ (gen'.calls # gen.calls) = Unchanged(new_bullet, ProjBulletAt(Edited, cur))
       /\ Unchanged(new_bullet', ProjBulletAt(Edited, cur)) =>
            ProjBulletAt(heap'[edited_ref], cur) = ProjBulletAt(Edited, cur)
  /\ (pc = "p3" /\ jd # NoJD /\ AtProjectBullet) => gen'.calls = <<>>

\* C24: with a Requirement, for each experience bullet and each project
\* bullet the forced pass issues one keyword-rewrite generation call and, only
\* if its result equals the bullet up to letter case (or is empty or failed),
\* retries exactly once with the general improvement prompt; no further
\* generation call is made for that bullet in the customization, and a
\* bullet unchanged after both attempts keeps its value.
C24_RetryProtocol == [][RetryStep]_vars

\* an experience bullet got three calls: the keyword rewrite twice, then the
\* general improvement
C24_Witness ==
  /\ IsWellFormedJD(jd)
  /\ gen.calls = <<"keyword", "keyword", "general">>

\* a project bullet already handled by the forced pass got one more keyword
\* call in step 3, whose answer replaced it
C24_ProjectWitness ==
  /\ IsWellFormedJD(jd)
  /\ pc \in {"p3", "skills4", "other", "finish"}
  /\ gen.calls = <<"keyword">>
  /\ Truthy(new_bullet)

\* --------------------------------------------------------------- C25
\* the handler of an action, without the try/except around it
Handled(profile, action) ==
  CASE action.action_type = "rewrite_bullet" -> RewriteBullet(profile, action)
    [] action.action_type = "add_keyword" -> AddKeyword(profile, action)
    [] OTHER -> Applied(profile)

BatchStep ==
  pc = "phaseA" =>
    LET action == Head(pending)
        outcome == Handled(Edited, action)
    IN /\ pending' = Tail(pending)
       /\ outcome.raised => heap'[edited_ref] = Edited
       /\ ~outcome.raised => heap'[edited_ref] = outcome.profile
       /\ pending' # <<>> => pc' = "phaseA"

\* C25: when applying one action of the plan raises (a non-numeric or an
\* out-of-range negative index in its target), the exception is caught: the
\* working copy is as if the action were absent, and every other action of
\* the plan, before and after it in plan order, is still applied (the loop
\* starts with every action of the plan and drops one action per iteration).
C25_BatchIsolation ==
  /\ [][BatchStep]_vars
  /\ [](pc = "copy" => Len(pending) = edit_plan.n_actions)

\* the loop has applied the first action of a plan of two, which rewrote a
\* bullet, and is at the second, whose handler raises
C25_Witness ==
  /\ pc = "phaseA"
  /\ edit_plan.n_actions = 2
  /\ Len(pending) = 1
  /\ Handled(Edited, Head(pending)).raised
  /\ Edited.experiences # Original.experiences

\* --------------------------------------------------------------- C27
AllBullets(profile) ==
  <<[e \in 1..Len(profile.experiences) |-> profile.experiences[e].bullets],
    [e \in 1..Len(profile.projects) |-> profile.projects[e].bullets]>>

\* the target reads experience_i_bullet_j with 0 <= i < number of
\* experiences and 0 <= j < number of bullets of experience i
NamesBullet(profile, target) ==
  LET parts == SplitUnderscore(target)
  IN /\ Len(parts) >= 4
     /\ parts[1] = "experience" /\ parts[3] = "bullet"
     /\ IsIntStr(parts[2]) /\ IsIntStr(parts[4])
     /\ ParseInt(parts[2]) >= 0 /\ ParseInt(parts[2]) < Len(profile.experiences)
     /\ ParseInt(parts[4]) >= 0
     /\ ParseInt(parts[4]) < Len(profile.experiences[ParseInt(parts[2]) + 1].bullets)

TargetStep ==
  (pc = "phaseA" /\ Head(pending).action_type = "rewrite_bullet") =>
    LET target == Head(pending).target
        parts == SplitUnderscore(target)
    IN IF NamesBullet(Edited, target)
         THEN \E text \in {Head(pending).new_value, Head(pending).description} :
                heap'[edited_ref] =
                  SetExpBullet(Edited, ParseInt(parts[2]) + 1, ParseInt(parts[4]) + 1, text)
         ELSE AllBullets(heap'[edited_ref]) = AllBullets(Edited)

\* C27: a rewrite-bullet action modifies only the bullet its target names,
\* experience i bullet j with 0 <= i < number of experiences and 0 <= j <
\* number of bullets of experience i; an action whose target index is out of
\* range or negative modifies no bullet of the working copy.
C27_TargetResolution == [][TargetStep]_vars

\* what holds of the code: an index at or above the length, or below minus
\* the length, modifies nothing; an index -k from minus the length up to -1
\* is taken from the end of the list, as Python indexes
C27_PythonIndexing ==
  [][(pc = "phaseA" /\ Head(pending).action_type = "rewrite_bullet") =>
       \/ heap'[edited_ref] = Edited
       \/ \E e \in 1..Len(Edited.experiences) :
            \E b \in 1..Len(Edited.experiences[e].bullets) :
              /\ heap'[edited_ref] = SetExpBullet(Edited, e, b, ActionText(Head(pending)))
              /\ LET parts == SplitUnderscore(Head(pending).target)
                 IN /\ e = PyPos(Len(Edited.experiences), ParseInt(parts[2]))
                    /\ b = PyPos(Len(Edited.experiences[e].bullets), ParseInt(parts[4]))]_vars

\* the action with target experience_0_bullet_-1 has replaced the last of
\* two bullets of the first experience
C27_Witness ==
  /\ pc = "summary"
  /\ Original.experiences # <<>>
  /\ Len(Original.experiences[1].bullets) = 2
  /\ Edited.experiences[1].bullets[2] = <<>>
  /\ Original.experiences[1].bullets[2] # <<>>

\* --------------------------------------------------------------- C28
NoEmptyBullet(profile) ==
  /\ \A e \in 1..Len(profile.experiences) :
       \A b \in 1..Len(profile.experiences[e].bullets) :
         profile.experiences[e].bullets[b] # <<>>
  /\ \A e \in 1..Len(profile.projects) :
       \A b \in 1..Len(profile.projects[e].bullets) :
         profile.projects[e].bullets[b] # <<>>

\* C28: no bullet is blanked: if no bullet of the original Profile is the
\* empty string, then for every plan and every sequence of generation
\* responses or failures no bullet of the edited Profile is the empty string.
C28_NoBulletBlanked ==
  (Copied /\ NoEmptyBullet(Original)) => NoEmptyBullet(Edited)

\* what holds of the code: the forced pass never blanks a bullet, whatever
\* the generation calls return; only an action of the plan can
C28_ForcedPassNeverBlanks ==
  [][(Copied /\ pc # "phaseA" /\ NoEmptyBullet(Edited))
       => NoEmptyBullet(heap'[edited_ref])]_vars

\* a customization that succeeded returns a Profile with an empty bullet
\* where the original had text
C28_Witness ==
  /\ Succeeded
  /\ NoEmptyBullet(Original)
  /\ ~NoEmptyBullet(heap[result.edited_profile])

\* ------------------------------------------- components checked on their own
\* the customization, the concurrent jobs and the job understanding are not
\* running
NotRunning ==
  /\ understanding = NoneRec
  /\ objects = <<>>
  /\ jobs = <<>>
  /\ caller_profile = NoProfile
  /\ heap = [r \in Refs |-> NoProfile]
  /\ jd = NoJD /\ company_name = NoText /\ job_role = NoText
  /\ backend = "up"
  /\ pc = "aside"
  /\ sections_to_edit = <<>>
  /\ edit_plan = NoneRec
  /\ planner = ""
  /\ plan_warning = FALSE
  /\ pending = <<>>
  /\ edited_ref = 0
  /\ cur = 0
  /\ relevant_keywords = <<>>
  /\ new_bullet = NoText
  /\ gen = NoGen
  /\ evaluation = NoneRec
  /\ result = NoneRec

running == <<heap, inputs, planning, edited_ref, cur, locals, evaluation, result, pc, objects, jobs, understanding>>

\* ------------------------------------------------- keyword selection alone
\* a Requirement with more keywords than _find_relevant_keywords scans: in
\* sorted order Java, KeywordScanLimit keywords Za, Zb, .., then api
LongKeywords == [n \in 1..KeywordScanLimit |-> <<"Z", LowerLetters[n]>>] \o <<KwApi>>
LongJD == MkJD(<<Req(KwJava, 8)>>, <<>>, LongKeywords, <<>>)
TeamJD == MkJD(<<Req(KwTeamLead, 8)>>, <<>>, <<>>, <<KwSql>>)

SelectBullets == {TxBuiltApis, TxLedTeam, TxShipsCode}
SelectJDs == {FullJD, KeywordOnlyJD, ManyJD, LongJD, TeamJD}
SelectPlanKeywords == {<<>>, <<KwGo>>, <<KwRebuilt>>}

SelectInit ==
  /\ \E bullet \in SelectBullets, description \in SelectJDs, added \in SelectPlanKeywords :
       selecting = [pc |-> "bullet", bullet |-> bullet, jd |-> description,
                    keywords_to_add |-> added, loop |-> "none",
                    relevant_keywords |-> <<>>]
  /\ normalizing = NoneRec /\ execution = NoneRec /\ NoJobStore
  /\ NotRunning

\* 659-665: the selection made for a bullet of an experience
SelectForExperience ==
  /\ selecting.pc = "bullet"
  /\ selecting' = [selecting EXCEPT
                     !.pc = "selected", !.loop = "experience",
                     !.relevant_keywords =
                        SelectExperienceKeywords(selecting.bullet, selecting.jd,
                                                 selecting.keywords_to_add)]
  /\ UNCHANGED <<running, normalizing, execution, job_store>>

\* 726-730: the selection made for a bullet of a project
SelectForProject ==
  /\ selecting.pc = "bullet"
  /\ selecting' = [selecting EXCEPT
                     !.pc = "selected", !.loop = "project",
                     !.relevant_keywords =
                        SelectProjectKeywords(selecting.bullet, selecting.jd)]
  /\ UNCHANGED <<running, normalizing, execution, job_store>>

SelectNext == SelectForExperience \/ SelectForProject

SelectSpec == SelectInit /\ [][SelectNext]_vars

\* --------------------------------------------------------------- C26
Selected == selecting # NoneRec /\ selecting.pc = "selected"

\* relevance as documented: the keyword is a substring of the bullet, or one
\* of its words longer than 3 characters appears in the bullet, or a word of
\* the bullet longer than 4 characters appears inside the keyword, all
\* compared in lower case
Relevant(bullet, keyword) ==
  \/ Contains(Lower(bullet), Lower(keyword))
  \/ \E w \in Range(Split(Lower(keyword))) : Len(w) > 3 /\ Contains(Lower(bullet), w)
  \/ \E w \in Range(Split(Lower(bullet))) : Len(w) > 4 /\ Contains(Lower(keyword), w)

\* the keywords the selection looks at: for an experience bullet all keywords
\* of the Requirement in sorted order, the plan's keywords and the priority
\* skills; for a project bullet the priority skills; the first 15 of them
Scanned ==
  Take(IF selecting.loop = "experience"
         THEN GetAllKeywords(selecting.jd) \o selecting.keywords_to_add
              \o GetPrioritySkills(selecting.jd, PriorityPool)
         ELSE GetPrioritySkills(selecting.jd, PriorityPool),
       KeywordScanLimit)

RelevantScanned ==
  LET hit(k) == Relevant(selecting.bullet, k) IN SelectSeq(Scanned, hit)

\* C26 (as the code has it): a keyword is relevant to a bullet iff it is a
\* substring of the bullet, or one of its words longer than 3 characters
\* appears in the bullet, or a bullet word longer than 4 characters appears
\* inside it, case-insensitively; relevance is tested on the first 15
\* keywords of the list only (for a project bullet the list is the priority
\* skills); when one of these is relevant the keywords used are the first 5
\* relevant ones, otherwise the first 5 priority skills.
C26_RelevanceSelection ==
  Selected =>
    /\ RelevantScanned # <<>> =>
         /\ selecting.relevant_keywords = Take(RelevantScanned, RelevantLimit)
         /\ \A k \in Range(selecting.relevant_keywords) : Relevant(selecting.bullet, k)
    /\ RelevantScanned = <<>> =>
         selecting.relevant_keywords =
           Take(GetPrioritySkills(selecting.jd, PriorityPool), FallbackLimit)

\* the sixteenth keyword is the only relevant one: the priority fallback is used
C26_Witness ==
  /\ Selected
  /\ selecting.loop = "experience"
  /\ selecting.jd = LongJD
  /\ selecting.bullet = TxBuiltApis
  /\ Relevant(selecting.bullet, KwApi)
  /\ selecting.relevant_keywords = <<KwJava>>

\* C26 as stated: whenever at least one Requirement keyword is relevant to
\* the bullet, the keywords used to rewrite it are relevant keywords, up to
\* 5; the priority fallback is used only when no Requirement keyword is
\* relevant.
C26_AsStated ==
  (Selected /\ \E k \in Range(GetAllKeywords(selecting.jd)) : Relevant(selecting.bullet, k))
    => /\ selecting.relevant_keywords # <<>>
       /\ Len(selecting.relevant_keywords) <= RelevantLimit
       /\ \A k \in Range(selecting.relevant_keywords) : Relevant(selecting.bullet, k)

\* faulty variant: a standard name that is itself a variant of another one
NormalizationMapChained ==
  << <<<<"n","o","d","e">>, <<"N","o","d","e","J","S">>>>,
     <<<<"n","o","d","e","j","s">>, <<"N","o","d","e",".","j","s">>>> >>

\* ------------------------------------------------- the technology normalizer
\* entries of the synonym table the model carries, in the order of the dict
\* literal: <<variant, standard name>>
NormalizationMap ==
  <<
     <<<<"p","y","t","h","o","n">>, <<"P","y","t","h","o","n">>>>,
     <<<<"p","y">>, <<"P","y","t","h","o","n">>>>,
     <<<<"p","y","t","o","r","c","h">>, <<"P","y","T","o","r","c","h">>>>,
     <<<<"t","o","r","c","h">>, <<"P","y","T","o","r","c","h">>>>,
     <<<<"p","a","n","d","a","s">>, <<"p","a","n","d","a","s">>>>,
     <<<<"l","l","m">>, <<"L","L","M","s">>>>,
     <<<<"l","l","m","s">>, <<"L","L","M","s">>>>,
     <<<<"l","a","n","g","c","h","a","i","n">>, <<"L","a","n","g","C","h","a","i","n">>>>,
     <<<<"l","a","n","g"," ","c","h","a","i","n">>, <<"L","a","n","g","C","h","a","i","n">>>>,
     <<<<"g","p","t","-","4">>, <<"G","P","T","-","4">>>>,
     <<<<"g","p","t","-","3">>, <<"G","P","T","-","3">>>>,
     <<<<"n","o","d","e">>, <<"N","o","d","e",".","j","s">>>>,
     <<<<"n","o","d","e","j","s">>, <<"N","o","d","e",".","j","s">>>>,
     <<<<"n","o","d","e",".","j","s">>, <<"N","o","d","e",".","j","s">>>>,
     <<<<"e","x","p","r","e","s","s">>, <<"E","x","p","r","e","s","s",".","j","s">>>>,
     <<<<"e","x","p","r","e","s","s","j","s">>, <<"E","x","p","r","e","s","s",".","j","s">>>>,
     <<<<"j","a","v","a">>, <<"J","a","v","a">>>>,
     <<<<"g","o">>, <<"G","o">>>>,
     <<<<"r">>, <<"R">>>>,
     <<<<"s","q","l">>, <<"S","Q","L">>>> >>

\* the categories of these names, in the order of the dict literal
Categories ==
  <<<<"programming_language", {<<"P","y","t","h","o","n">>, <<"J","a","v","a">>, <<"G","o">>, <<"R">>}>>,
    <<"framework", {<<"N","o","d","e",".","j","s">>, <<"E","x","p","r","e","s","s",".","j","s">>, <<"P","y","T","o","r","c","h">>}>>,
    <<"library", {<<"p","a","n","d","a","s">>, <<"L","a","n","g","C","h","a","i","n">>}>>,
    <<"ml_ai", {<<"P","y","T","o","r","c","h">>, <<"L","L","M","s">>}>> >>

NormExtraNames ==
  {<<>>,
   <<" ">>,
   <<"f","o","o"," ","b","a","r">>,
   <<"F","o","o"," ","b","a","r">>,
   <<"f","o","o","B","a","r">>,
   <<"g","p","t","-","5">>,
   <<"e","x","p","r","e","s">>,
   <<"n","o","d",".","j","s">>,
   <<"j","a","v">>,
   <<" "," ","g","o">>,
   <<"r","u","b","y"," ","o","n"," ","r">>,
   <<"L","L","M","S"," ">>,
   <<" ","f","o","o">>}
MapKeys == [i \in 1..Len(NormalizationMap) |-> NormalizationMap[i][1]]
\* cleaned_lower in self.normalization_map
InMap(name) == \E i \in 1..Len(NormalizationMap) : NormalizationMap[i][1] = name
\* self.normalization_map[name]
MapValue(name) ==
  NormalizationMap[CHOOSE i \in 1..Len(NormalizationMap) : NormalizationMap[i][1] = name][2]

\* _get_category: the first category listing the name, None when none does
GetCategory(name) ==
  IF \E i \in 1..Len(Categories) : name \in Categories[i][2]
    THEN Categories[CHOOSE i \in 1..Len(Categories) :
                      /\ name \in Categories[i][2]
                      /\ \A k \in 1..(i - 1) : name \notin Categories[k][2]][1]
    ELSE None

\* SequenceMatcher.find_longest_match without junk: the longest block common
\* to a and b, the one starting earliest in a, then earliest in b: <<i, j, k>>
LongestMatch(a, b) ==
  LET blocks == {<<i, j, k>> \in (1..Len(a)) \X (1..Len(b)) \X (1..Len(a)) :
                   /\ i + k - 1 <= Len(a) /\ j + k - 1 <= Len(b)
                   /\ SubSeq(a, i, i + k - 1) = SubSeq(b, j, j + k - 1)}
  IN IF blocks = {} THEN <<1, 1, 0>>
     ELSE CHOOSE m \in blocks :
            \A o \in blocks :
              \/ m[3] > o[3]
              \/ (m[3] = o[3] /\ m[1] < o[1])
              \/ (m[3] = o[3] /\ m[1] = o[1] /\ m[2] <= o[2])

\* get_matching_blocks: the longest block, then the same to its left and to
\* its right; the number of characters matched
RECURSIVE MatchedChars(_, _)
MatchedChars(a, b) ==
  IF a = <<>> \/ b = <<>> THEN 0
  ELSE LET m == LongestMatch(a, b)
       IN IF m[3] = 0 THEN 0
          ELSE m[3]
               + MatchedChars(SubSeq(a, 1, m[1] - 1), SubSeq(b, 1, m[2] - 1))
               + MatchedChars(SubSeq(a, m[1] + m[3], Len(a)),
                              SubSeq(b, m[2] + m[3], Len(b)))

\* ratio(): 2.0 * matches / (len(a) + len(b)), 1.0 for two empty strings, as
\* the fraction <<numerator, denominator>>
Ratio(a, b) ==
  IF Len(a) + Len(b) = 0 THEN <<1, 1>>
  ELSE <<2 * MatchedChars(a, b), Len(a) + Len(b)>>

\* threshold=0.8, in tenths
FuzzyThreshold == 8
AtLeastThreshold(score) == score[1] * 10 >= FuzzyThreshold * score[2]

\* faulty variant: a later key with the same score replaces the best match
ScoreNotBelow(score, best_score) == score[1] * best_score[2] >= best_score[1] * score[2]

\* score > best_score
ScoreAbove(score, best_score) == score[1] * best_score[2] > best_score[1] * score[2]

\* the loop of _fuzzy_match from key i on
RECURSIVE FuzzyFrom(_, _, _, _)
FuzzyFrom(name, i, best_match, best_score) ==
  IF i > Len(MapKeys) THEN best_match
  ELSE LET score == Ratio(name, MapKeys[i])
       IN IF ScoreAbove(score, best_score) /\ AtLeastThreshold(score)
            THEN FuzzyFrom(name, i + 1, MapKeys[i], score)
            ELSE FuzzyFrom(name, i + 1, best_match, best_score)

\* _fuzzy_match: the key found, None when there is none
FuzzyMatch(name) == FuzzyFrom(name, 1, NoText, <<0, 1>>)

IsUpperLetter(c) == \E i \in 1..26 : UpperLetters[i] = c
IsLowerLetter(c) == \E i \in 1..26 : LowerLetters[i] = c
\* str.islower(): a cased character, none of them upper case
IsLower(t) ==
  /\ \E i \in 1..Len(t) : IsLowerLetter(t[i])
  /\ \A i \in 1..Len(t) : ~IsUpperLetter(t[i])
\* str.title(): a letter after a non-letter in upper case, the others in lower
Title(t) ==
  [i \in 1..Len(t) |->
     IF i = 1 \/ ~(IsUpperLetter(t[i - 1]) \/ IsLowerLetter(t[i - 1]))
       THEN UpperChar(t[i]) ELSE LowerChar(t[i])]

Normalized(name, category, how) == [name |-> name, category |-> category, how |-> how]

\* TechNormalizer.normalize; `how` records the return taken
Normalize(tech_name) ==
  IF tech_name = <<>> THEN Normalized(tech_name, None, "empty")
  ELSE LET cleaned == Strip(tech_name)
           cleaned_lower == Lower(cleaned)
       IN IF InMap(cleaned_lower)
            THEN Normalized(MapValue(cleaned_lower),
                            GetCategory(MapValue(cleaned_lower)), "exact")
          ELSE LET best_match == FuzzyMatch(cleaned_lower)
               IN IF Truthy(best_match)
                    THEN Normalized(MapValue(best_match),
                                    GetCategory(MapValue(best_match)), "fuzzy")
                  ELSE LET fallback == IF IsLower(cleaned) THEN Title(cleaned)
                                       ELSE cleaned
                       IN Normalized(fallback, GetCategory(fallback), "fallback")

\* the names given: every variant and standard name of the table, the
\* variants in upper case, with blanks around, without their last character
\* and with one more character, and names the table does not know
UpperText(t) == [i \in 1..Len(t) |-> UpperChar(t[i])]
TechNames ==
  NormExtraNames
  \cup {NormalizationMap[i][1] : i \in 1..Len(NormalizationMap)}
  \cup {NormalizationMap[i][2] : i \in 1..Len(NormalizationMap)}
  \cup {UpperText(NormalizationMap[i][1]) : i \in 1..Len(NormalizationMap)}
  \cup {<<" ">> \o NormalizationMap[i][1] \o <<" ">> : i \in 1..Len(NormalizationMap)}
  \cup {SubSeq(NormalizationMap[i][1], 1, Len(NormalizationMap[i][1]) - 1) : i \in 1..Len(NormalizationMap)}
  \cup {NormalizationMap[i][1] \o <<"x">> : i \in 1..Len(NormalizationMap)}

NormInit ==
  /\ \E name \in TechNames :
       normalizing = [pc |-> "given", tech_name |-> name,
                      first |-> NoneRec, second |-> NoneRec]
  /\ selecting = NoneRec /\ execution = NoneRec /\ NoJobStore
  /\ NotRunning

\* normalizer.normalize(tech)
NormalizeGiven ==
  /\ normalizing.pc = "given"
  /\ normalizing' = [normalizing EXCEPT !.pc = "normalized",
                                        !.first = Normalize(normalizing.tech_name)]
  /\ UNCHANGED <<running, selecting, execution, job_store>>

\* normalizer.normalize on the name it returned
NormalizeAgain ==
  /\ normalizing.pc = "normalized"
  /\ normalizing' = [normalizing EXCEPT !.pc = "again",
                                        !.second = Normalize(normalizing.first.name)]
  /\ UNCHANGED <<running, selecting, execution, job_store>>

NormNext == NormalizeGiven \/ NormalizeAgain

NormSpec == NormInit /\ [][NormNext]_vars

Resolved == normalizing # NoneRec /\ normalizing.pc # "given"

\* x < y for two fractions
RatioLess(x, y) == x[1] * y[2] < y[1] * x[2]

\* the key of the highest similarity ratio at or above 0.8 to the name, the
\* first of the table among equals; 0 when no key reaches 0.8
BestKey(name) ==
  LET close == {i \in 1..Len(MapKeys) : AtLeastThreshold(Ratio(name, MapKeys[i]))}
  IN IF close = {} THEN 0
     ELSE CHOOSE i \in close :
            /\ \A k \in close : ~RatioLess(Ratio(name, MapKeys[i]), Ratio(name, MapKeys[k]))
            /\ \A k \in close : k < i =>
                 RatioLess(Ratio(name, MapKeys[k]), Ratio(name, MapKeys[i]))

\* the category the table gives a name, None when it lists it nowhere
CategoryOf(name) ==
  IF \A i \in 1..Len(Categories) : name \notin Categories[i][2] THEN None
  ELSE Categories[CHOOSE i \in 1..Len(Categories) :
                    /\ name \in Categories[i][2]
                    /\ \A k \in 1..(i - 1) : name \notin Categories[k][2]][1]

\* the three steps on the name `trimmed`, and the name `passed` the fallback
\* works on
ResolvedInOrder(trimmed, passed) ==
  LET lowered == Lower(trimmed)
      out == normalizing.first
  IN /\ InMap(lowered) => out.name = MapValue(lowered)
     /\ (~InMap(lowered) /\ BestKey(lowered) # 0) =>
          out.name = NormalizationMap[BestKey(lowered)][2]
     /\ (~InMap(lowered) /\ BestKey(lowered) = 0) =>
          out.name = (IF IsLower(passed) THEN Title(passed) ELSE passed)
     /\ out.category = CategoryOf(out.name)

\* C22 (as the code has it): normalize(name) resolves in this order: (1) an
\* exact match of the trimmed, lowercased name against the synonym table
\* gives that entry's standard name, whatever the letter case; (2) otherwise
\* the key with the highest similarity ratio >= 0.8 wins, the first of the
\* table among equals; (3) otherwise the trimmed name is title-cased if it is
\* all lower case and returned as it is if not; the category is the one the
\* category table gives the resulting name, None when it is absent; every
\* name, the empty one included, gets a result.
C22_ResolutionOrder ==
  Resolved =>
    IF normalizing.tech_name = <<>>
      THEN normalizing.first.name = <<>> /\ normalizing.first.category = None
      ELSE ResolvedInOrder(Strip(normalizing.tech_name), Strip(normalizing.tech_name))

\* gpt-5 is as close to gpt-4 as to gpt-3: the first key of the table wins
C22_Witness ==
  /\ Resolved
  /\ normalizing.tech_name = <<"g","p","t","-","5">>
  /\ normalizing.first.how = "fuzzy"
  /\ normalizing.first.name = <<"G","P","T","-","4">>
  /\ Ratio(normalizing.tech_name, <<"g","p","t","-","3">>) = Ratio(normalizing.tech_name, <<"g","p","t","-","4">>)

\* C22 as stated: in step (3) the input itself is title-cased if it was all
\* lower case and passed through unchanged if not.
C22_AsStated ==
  Resolved =>
    IF normalizing.tech_name = <<>>
      THEN normalizing.first.name = <<>> /\ normalizing.first.category = None
      ELSE ResolvedInOrder(Strip(normalizing.tech_name), normalizing.tech_name)

\* ------------------------------------------------ BaseAgent.execute alone
\* config.guardrails.max_input_length and max_output_length, scaled down
MaxInputLength == 12
MaxOutputLength == 12
MinInstructionLength == 10
MinTranscriptionLength == 5

GuardrailViolation(type, severity) == [type |-> type, severity |-> severity]

\* input_data and process outputs: a str with its text, or a dict
Str(t) == [is_str |-> TRUE, text |-> t]
Dict == [is_str |-> FALSE, text |-> <<>>]

TxBlank == <<" ", " ">>
TxHi == <<"h", "i", " ">>
TxUseSkills == <<"u", "s", "e", " ", "s", "k", "i", "l", "l", "s">>
TxTooLong == [i \in 1..(MaxInputLength + 1) |-> "a"]
TxPdfPath == <<"c", "v", ".", "P", "D", "F">>
TxTxtPath == <<"c", "v", ".", "t", "x", "t">>
InputData == {Str(t) : t \in {<<>>, TxBlank, TxHi, TxUseSkills, TxTooLong, TxPdfPath, TxTxtPath}} \cup {Dict}

InputTypes == {"text", "voice_instruction", "job_description", "resume_file", "resume_customization"}
OutputTypes == {"text", "transcription", "structured_data"}

\* what Path(file_path) finds on disk: "" is the working directory
Files(file_path) ==
  IF file_path = <<>> THEN {[exists |-> TRUE, too_large |-> FALSE]}
  ELSE {[exists |-> FALSE, too_large |-> FALSE]} \cup {[exists |-> TRUE, too_large |-> b] : b \in BOOLEAN}

\* Path(file_path).suffix of a path of one component
Suffix(file_path) ==
  LET dots == {i \in 2..(Len(file_path) - 1) : file_path[i] = "."}
  IN IF dots = {} THEN <<>>
     ELSE SubSeq(file_path, CHOOSE i \in dots : \A j \in dots : j <= i, Len(file_path))

SupportedExtensions == {<<".", "p", "d", "f">>, <<".", "d", "o", "c", "x">>, <<".", "d", "o", "c">>}

RequiredKeywords ==
  {<<"r", "e", "q", "u", "i", "r", "e", "m", "e", "n", "t", "s">>,
   <<"q", "u", "a", "l", "i", "f", "i", "c", "a", "t", "i", "o", "n", "s">>,
   <<"s", "k", "i", "l", "l", "s">>,
   <<"e", "x", "p", "e", "r", "i", "e", "n", "c", "e">>}

ValidateVoiceInstruction(instruction) ==
  IF Len(Strip(instruction)) < MinInstructionLength
    THEN <<GuardrailViolation("instruction_too_short", "warning")>>
    ELSE <<>>

ValidateJobDescription(text) ==
  IF ~ \E keyword \in RequiredKeywords : Contains(Lower(text), keyword)
    THEN <<GuardrailViolation("jd_missing_keywords", "warning")>>
    ELSE <<>>

ValidateResumeFile(file_path, file) ==
  IF ~ file.exists
    THEN <<GuardrailViolation("file_not_found", "error")>>
    ELSE (IF Lower(Suffix(file_path)) \notin SupportedExtensions
            THEN <<GuardrailViolation("unsupported_format", "error")>> ELSE <<>>)
         \o (IF file.too_large
               THEN <<GuardrailViolation("file_too_large", "error")>> ELSE <<>>)

\* faulty variant: any list of violations passes
AllPass(violations) == TRUE

\* all(v.severity != "error" for v in violations)
NoErrors(violations) == \A i \in 1..Len(violations) : violations[i].severity # "error"

\* the checks by type call str methods and Path(): a dict raises in them
ValidateRaises(input_data, input_type) ==
  /\ ~ input_data.is_str
  /\ input_type \in {"voice_instruction", "job_description", "resume_file"}

\* InputGuardrails.validate for an input that does not raise
ValidateInput(input_data, input_type, enabled, file) ==
  IF ~ enabled THEN [is_valid |-> TRUE, violations |-> <<>>]
  ELSE
    LET text == input_data.text
        general ==
          IF input_data.is_str
            THEN (IF Len(text) > MaxInputLength
                    THEN <<GuardrailViolation("length_exceeded", "error")>> ELSE <<>>)
                 \o (IF Strip(text) = <<>>
                       THEN <<GuardrailViolation("empty_input", "error")>> ELSE <<>>)
            ELSE <<>>
        typed ==
          CASE input_type = "voice_instruction" -> ValidateVoiceInstruction(text)
            [] input_type = "job_description" -> ValidateJobDescription(text)
            [] input_type = "resume_file" -> ValidateResumeFile(text, file)
            [] OTHER -> <<>>
        violations == general \o typed
    IN [is_valid |-> NoErrors(violations), violations |-> violations]

\* [v for v in violations if v.severity == "error"]
ErrorViolations(violations) == SelectSeq(violations, LAMBDA v : v.severity = "error")

\* InputGuardrails.sanitize / OutputGuardrails.sanitize: every character of
\* the model's texts is printable, so what is left is the strip
Sanitize(data) == IF data.is_str THEN Str(Strip(data.text)) ELSE data

ValidateTranscription(transcription) ==
  IF Len(Strip(transcription)) < MinTranscriptionLength
    THEN <<GuardrailViolation("transcription_too_short", "warning")>>
    ELSE <<>>

ValidateStructuredData(data) ==
  IF ~ data.is_str THEN <<>>
  ELSE <<GuardrailViolation("invalid_structure", "error")>>

\* OutputGuardrails.validate for an output that does not raise
ValidateOutput(output, output_type, enabled) ==
  IF ~ enabled THEN <<>>
  ELSE
    (IF output.is_str /\ Len(output.text) > MaxOutputLength
       THEN <<GuardrailViolation("length_exceeded", "error")>> ELSE <<>>)
    \o (CASE output_type = "transcription" -> ValidateTranscription(output.text)
          [] output_type = "structured_data" -> ValidateStructuredData(output)
          [] OTHER -> <<>>)

ExecuteFailure(violations, error) ==
  [output |-> NoneRec, violations |-> violations, error |-> error, success |-> FALSE]

ExecuteSuccess(output, violations, evaluated) ==
  [output |-> output, violations |-> violations, evaluation |-> evaluated, success |-> TRUE]

Outputs == {Str(<<" ", "o", "k">>), Str(TxTooLong), Dict}

\* a call of execute(input_data, input_type=.., output_type=..) and the
\* configuration it runs under
GuardInit ==
  /\ \E input_data \in InputData, input_type \in InputTypes, output_type \in OutputTypes,
        enabled \in BOOLEAN, enable_moderation \in BOOLEAN, auto_evaluate \in BOOLEAN :
       execution = [pc |-> "validate", input_data |-> input_data, given |-> input_data,
                    input_type |-> input_type, output_type |-> output_type,
                    enabled |-> enabled, enable_moderation |-> enable_moderation,
                    auto_evaluate |-> auto_evaluate,
                    violations |-> <<>>, input_violations |-> <<>>,
                    process_calls |-> 0, output |-> NoneRec, returned |-> NoneRec]
  /\ selecting = NoneRec /\ normalizing = NoneRec /\ NoJobStore
  /\ NotRunning

\* execute up to the first await: input validation and its gate
InputValidation ==
  /\ execution.pc = "validate"
  /\ IF execution.enabled /\ ValidateRaises(execution.input_data, execution.input_type)
       THEN execution' = [execution EXCEPT !.pc = "raised"]
       ELSE \E file \in Files(execution.input_data.text) :
         LET validated == ValidateInput(execution.input_data, execution.input_type,
                                        execution.enabled, file)
             error_violations == ErrorViolations(validated.violations)
         IN execution' =
              IF ~ validated.is_valid /\ error_violations # <<>>
                THEN [execution EXCEPT
                        !.pc = "returned", !.violations = validated.violations,
                        !.input_violations = validated.violations,
                        !.returned = ExecuteFailure(validated.violations,
                                       <<"Input validation failed", error_violations[1].type>>)]
                ELSE [execution EXCEPT
                        !.pc = "moderation", !.violations = validated.violations,
                        !.input_violations = validated.violations]
  /\ UNCHANGED <<running, selecting, normalizing, job_store>>

\* moderation.check answers: the API flags the content, passes it or fails
\* (a failed check lets the content through); then the input is sanitized
ModerationCheck ==
  /\ execution.pc = "moderation"
  /\ \E flagged \in (IF execution.input_data.is_str /\ execution.enable_moderation
                       THEN BOOLEAN ELSE {FALSE}) :
       LET violations == execution.violations \o
              (IF flagged THEN <<GuardrailViolation("moderation_category", "error")>> ELSE <<>>)
       IN execution' =
            IF flagged
              THEN [execution EXCEPT
                      !.pc = "returned", !.violations = violations,
                      !.returned = ExecuteFailure(violations, <<"Content failed moderation check">>)]
              ELSE [execution EXCEPT
                      !.pc = "process", !.violations = violations,
                      !.input_data = Sanitize(execution.input_data)]
  /\ UNCHANGED <<running, selecting, normalizing, job_store>>

\* await self.process(input_data, **kwargs) returns an output or raises
Process ==
  /\ execution.pc = "process"
  /\ \/ \E output \in Outputs :
          execution' = [execution EXCEPT !.pc = "output", !.output = output,
                                         !.process_calls = @ + 1]
     \/ execution' = [execution EXCEPT
                        !.pc = "returned", !.process_calls = @ + 1,
                        !.returned = ExecuteFailure(execution.violations, <<"process raised">>)]
  /\ UNCHANGED <<running, selecting, normalizing, job_store>>

\* output validation, sanitizing and evaluation; _validate_transcription
\* calls strip() on the output and raises on a dict
OutputValidation ==
  /\ execution.pc = "output"
  /\ IF execution.enabled /\ execution.output_type = "transcription" /\ ~ execution.output.is_str
       THEN execution' = [execution EXCEPT !.pc = "raised"]
       ELSE LET violations == execution.violations \o
                   ValidateOutput(execution.output, execution.output_type, execution.enabled)
            IN execution' = [execution EXCEPT
                 !.pc = "returned", !.violations = violations,
                 !.returned = ExecuteSuccess(Sanitize(execution.output), violations,
                                IF execution.auto_evaluate THEN [evaluated |-> TRUE] ELSE NoneRec)]
  /\ UNCHANGED <<running, selecting, normalizing, job_store>>

GuardNext == InputValidation \/ ModerationCheck \/ Process \/ OutputValidation

GuardSpec == GuardInit /\ [][GuardNext]_vars

\* --------------------------------------------------------------- C23
\* C23: whenever input validation yields a violation of severity "error" (an
\* empty or whitespace-only text, a resume path that does not exist, ..),
\* execute returns success = False with output None and the violations of the
\* validation, and process is not invoked for the request.
C23_InputGating ==
  (execution.pc # "validate" /\ ErrorViolations(execution.input_violations) # <<>>) =>
    /\ execution.pc = "returned"
    /\ execution.returned.success = FALSE
    /\ execution.returned.output = NoneRec
    /\ execution.returned.violations = execution.input_violations
    /\ execution.process_calls = 0

\* a resume path with no file behind it was refused
C23_Witness ==
  /\ execution.pc = "returned"
  /\ execution.input_type = "resume_file"
  /\ execution.given = Str(TxPdfPath)
  /\ execution.input_violations = <<GuardrailViolation("file_not_found", "error")>>
  /\ execution.returned.success = FALSE
  /\ execution.process_calls = 0

\* a whitespace-only voice instruction was refused, its warning included
C23_BlankWitness ==
  /\ execution.pc = "returned"
  /\ execution.input_type = "voice_instruction"
  /\ execution.given = Str(TxBlank)
  /\ Len(execution.returned.violations) = 2
  /\ execution.process_calls = 0

\* ------------------------------------------------ backend job processing
MaxApplications == 2
MaxPolls == 3
ApplicationIds == 1..MaxApplications

\* a request body by what process_job_background reads in it: profile_data
\* (missing, {}, accepted or rejected by Profile(**profile_data)), whether
\* job_url and job_description are there, and the 'job' entry
JobRequest(profile_data, job_url, job_description, job) ==
  [profile_data |-> profile_data, job_url |-> job_url,
   job_description |-> job_description, job |-> job]

Requests ==
  {JobRequest("missing", FALSE, TRUE, "missing"),
   JobRequest("empty", TRUE, FALSE, "missing"),
   JobRequest("invalid", FALSE, TRUE, "missing"),
   JobRequest("valid", FALSE, FALSE, "missing"),
   JobRequest("valid", FALSE, FALSE, "not_dict"),
   JobRequest("valid", FALSE, FALSE, "no_description"),
   JobRequest("valid", FALSE, FALSE, "description"),
   JobRequest("valid", TRUE, FALSE, "missing"),
   JobRequest("valid", FALSE, TRUE, "missing")}

\* faulty variant: the failure is logged and nothing is stored
NotStored(error) == NoneRec

\* {"success": False, "error": error}
Failed(error) == [success |-> FALSE, error |-> error]

\* the result stored for a customized resume
Complete == [success |-> TRUE, edited_profile |-> "edited_profile_dict"]

\* what get_job_result answers for an id that is not in job_results
Processing == [success |-> FALSE, status |-> "processing"]

\* whether jd_text is set after the three sources were tried in turn
HasJdText(request, fetched) ==
  \/ request.job_url /\ fetched
  \/ request.job_description
  \/ request.job = "description"

NoTask == [pc |-> "none", request |-> NoneRec]

JobInit ==
  /\ job_results = [id \in ApplicationIds |-> NoneRec]
  /\ background_tasks = [id \in ApplicationIds |-> NoTask]
  /\ polled = [id \in ApplicationIds |-> <<>>]
  /\ selecting = NoneRec /\ normalizing = NoneRec /\ execution = NoneRec
  /\ NotRunning

\* job_results[job_id] = value, and the task returns
StoreAndReturn(id, value) ==
  /\ job_results' = [job_results EXCEPT ![id] = value]
  /\ background_tasks' = [background_tasks EXCEPT ![id].pc = "done"]

\* apply_to_job: a fresh id, the task queued, the id returned to the client
ApplyToJob ==
  /\ \E id \in ApplicationIds :
       /\ background_tasks[id].pc = "none"
       /\ \A other \in ApplicationIds : other < id => background_tasks[other].pc # "none"
       /\ \E request \in Requests :
            background_tasks' = [background_tasks EXCEPT ![id] = [pc |-> "queued", request |-> request]]
  /\ UNCHANGED <<running, selecting, normalizing, execution, job_results, polled>>

\* process_job_background up to its first await: the profile is rebuilt and
\* the job description looked for (the fetch answers with a text or not)
ProcessJobStart(id) ==
  /\ background_tasks[id].pc = "queued"
  /\ LET request == background_tasks[id].request
     IN CASE request.profile_data \in {"missing", "empty"} ->
               StoreAndReturn(id, Failed("Profile data required"))
          [] request.profile_data = "invalid" ->
               StoreAndReturn(id, Failed("str(e)"))
          [] OTHER ->
               \E fetched \in (IF request.job_url THEN BOOLEAN ELSE {FALSE}) :
                 IF HasJdText(request, fetched)
                   THEN /\ background_tasks' = [background_tasks EXCEPT ![id].pc = "analysis"]
                        /\ UNCHANGED job_results
                   ELSE StoreAndReturn(id, Failed("No job description available"))
  /\ UNCHANGED <<running, selecting, normalizing, execution, polled>>

\* the await of jd_agent.process ends: an analysis, or an exception
JdAnalysisEnds(id) ==
  /\ background_tasks[id].pc = "analysis"
  /\ \/ /\ background_tasks' = [background_tasks EXCEPT ![id].pc = "customize"]
        /\ UNCHANGED job_results
     \/ StoreAndReturn(id, Failed("str(e)"))
  /\ UNCHANGED <<running, selecting, normalizing, execution, polled>>

\* the await of customize_resume ends: success (and the summary of changes
\* is built, or building it raises), a failure result, or an exception
CustomizeEnds(id) ==
  /\ background_tasks[id].pc = "customize"
  /\ \/ StoreAndReturn(id, Complete)
     \/ StoreAndReturn(id, Failed("error_msg"))
     \/ StoreAndReturn(id, Failed("str(e)"))
  /\ UNCHANGED <<running, selecting, normalizing, execution, polled>>

\* get_job_result for an id apply_to_job gave out
GetJobResult(id) ==
  /\ background_tasks[id].pc # "none"
  /\ Len(polled[id]) < MaxPolls
  /\ IF job_results[id] = NoneRec
       THEN /\ polled' = [polled EXCEPT ![id] = Append(@, Processing)]
            /\ UNCHANGED job_results
       ELSE /\ polled' = [polled EXCEPT ![id] = Append(@, job_results[id])]
            /\ job_results' = IF job_results[id].success
                                THEN [job_results EXCEPT ![id] = NoneRec]
                                ELSE job_results
  /\ UNCHANGED <<running, selecting, normalizing, execution, background_tasks>>

BackgroundTask(id) == ProcessJobStart(id) \/ JdAnalysisEnds(id) \/ CustomizeEnds(id)

JobNext == ApplyToJob \/ \E id \in ApplicationIds : BackgroundTask(id) \/ GetJobResult(id)

JobSpec == JobInit /\ [][JobNext]_vars

\* the event loop runs every task it was given until the task returns
FairJobSpec == JobSpec /\ \A id \in ApplicationIds : WF_vars(BackgroundTask(id))

\* --------------------------------------------------------------- C29
\* C29: polling is monotonic: for every job id, once a poll has returned the
\* stored result (success or error), no later poll of the same id answers
\* "processing".
C29_PollsMonotonic ==
  \A id \in ApplicationIds :
    \A i, j \in 1..Len(polled[id]) :
      (i < j /\ polled[id][i] # Processing) => polled[id][j] # Processing

\* a stored result was returned by a poll and the id was polled again
C29_Witness ==
  \E id \in ApplicationIds :
    /\ Len(polled[id]) = MaxPolls
    /\ polled[id][1] = Processing
    /\ polled[id][2] = Failed("No job description available")
    /\ polled[id][3] = polled[id][2]

\* an error result stays: every poll after one that returned it returns it
C29_ErrorsStay ==
  \A id \in ApplicationIds :
    \A i, j \in 1..Len(polled[id]) :
      (i < j /\ polled[id][i] # Processing /\ ~ polled[id][i].success) =>
        polled[id][j] = polled[id][i]

\* --------------------------------------------------------------- C30
\* C30: every job id issued by apply_to_job eventually has a result stored
\* under it, with success true or with success false and an error, whichever
\* step fails, provided its background task runs to completion.
C30_EventuallyStored ==
  \A id \in ApplicationIds :
    (background_tasks[id].pc = "queued") ~>
      (job_results[id] # NoneRec /\ (job_results[id].success \/ job_results[id].error # ""))

\* two jobs are over: one failed for want of a job description, the other in
\* the customization, and both results are in the store
C30_Witness ==
  /\ background_tasks[1].pc = "done" /\ background_tasks[2].pc = "done"
  /\ job_results[1] = Failed("No job description available")
  /\ job_results[2] = Failed("error_msg")

\* a task that has returned has stored a result, unless a poll took it away
C30_StoredAtReturn ==
  \A id \in ApplicationIds :
    (background_tasks[id].pc = "done" /\ polled[id] = <<>>) => job_results[id] # NoneRec

=============================================================================
